---- MODULE Spec2Model ----
(***************************************************************************)
(* Vellum: the Model state-and-sync engine (src/src/lib/Model.svelte.ts)   *)
(* together with the shared configuration (src/src/lib/config.svelte.ts).  *)
(*                                                                         *)
(* One Model instance of the test subclass `User` is modelled.  JavaScript *)
(* values are tagged records, plain objects are functions from keys to     *)
(* values.  A request that has been handed to the transport and whose      *)
(* response has not arrived yet is an element of `pending`.                *)
(***************************************************************************)
EXTENDS Integers, Sequences, FiniteSets, TLC

VARIABLES
    vellumConfig,     \* the shared configuration object
    defaults,         \* what defaults() of the subclass returns
    idAttribute,      \* Model.idAttribute, an instance field
    attributes,       \* Model.#attributes
    changed,          \* Model.#changed
    previous,         \* Model.#previous
    validationError,  \* Model.#validationError
    pending,          \* how many calls are suspended at `await fetch(url,
                      \* fetchOpts)`, by the method of their request
    userCopy,         \* the instance clone() returned, undefined before
    items,            \* Collection.items
    comparator,       \* which comparator the Collection subclass defines
    constructed,      \* the models the Collection has constructed so far
    fetching,         \* how many Collection.fetch calls are suspended
    run,              \* the run observed: how many Model requests it lets
                      \* overlap and, when it is recorded, its steps so far
    last              \* what the most recent step was and what it returned

\* the fields of the Collection instance
collectionVars == <<items, comparator, constructed, fetching>>

vars == <<vellumConfig, defaults, idAttribute, attributes, changed, previous,
          validationError, pending, userCopy, collectionVars, run, last>>

-----------------------------------------------------------------------------
(* Bounds *)

\* largest number of requests in flight at once
MaxPending == 1

\* the items a collection holds at most
MaxItems == 4

\* the models a collection constructs at most
MaxConstructed == 3

\* the Model requests in flight at once in the runs that let requests overlap
MaxOverlap == 2

\* the steps of a recorded run
MaxSteps == 5

-----------------------------------------------------------------------------
(* JavaScript values *)

Undefined == [type |-> "undefined"]

Null == [type |-> "null"]

Str(s) == [type |-> "string", str |-> s]

Num(n) == [type |-> "number", num |-> n]

Bool(b) == [type |-> "boolean", bool |-> b]

\* a plain object is a function whose domain is its set of own keys
EmptyObject == [k \in {} |-> Undefined]

IsPlainObject(v) == "type" \notin DOMAIN v

\* the typeof operator
TypeOf(v) ==
    IF IsPlainObject(v) THEN "object"
    ELSE IF v.type = "null" THEN "object"
    ELSE v.type

\* ToBoolean, as applied by `!x`, `x ? a : b`, `x && y` and `if (x)`
Truthy(v) ==
    IF IsPlainObject(v) THEN TRUE
    ELSE CASE v.type = "undefined" -> FALSE
           [] v.type = "null" -> FALSE
           [] v.type = "boolean" -> v.bool
           [] v.type = "number" -> v.num # 0
           [] v.type = "string" -> v.str # ""
           [] OTHER -> TRUE

\* obj[key]: the value of an own key, undefined for a missing one
Get(obj, key) == IF key \in DOMAIN obj THEN obj[key] ELSE Undefined

\* { ...a, ...b } and Object.assign(a, b)
Assign(a, b) ==
    [k \in DOMAIN a \cup DOMAIN b |-> IF k \in DOMAIN b THEN b[k] ELSE a[k]]

\* Delete leaving the key in place with the value undefined
DeleteSetsUndefined(obj, key) ==
    [k \in DOMAIN obj |-> IF k = key THEN Undefined ELSE obj[k]]

\* delete obj[key]
Delete(obj, key) == [k \in DOMAIN obj \ {key} |-> obj[k]]

Digit(d) ==
    CASE d = 0 -> "0" [] d = 1 -> "1" [] d = 2 -> "2" [] d = 3 -> "3"
      [] d = 4 -> "4" [] d = 5 -> "5" [] d = 6 -> "6" [] d = 7 -> "7"
      [] d = 8 -> "8" [] d = 9 -> "9"

RECURSIVE NatToString(_)
NatToString(n) ==
    IF n < 10 THEN Digit(n) ELSE NatToString(n \div 10) \o Digit(n % 10)

\* the string a template literal `${v}` produces
TemplateString(v) ==
    CASE v.type = "string" -> v.str
      [] v.type = "number" ->
            IF v.num < 0 THEN "-" \o NatToString(0 - v.num) ELSE NatToString(v.num)
      [] v.type = "boolean" -> IF v.bool THEN "true" ELSE "false"
      [] OTHER -> v.type

-----------------------------------------------------------------------------
(* Attribute schemas: the keys and values the operations are tried with *)

\* the attributes the request engine is exercised on
SyncSchema ==
    [id |-> {Null, Str(""), Str("123"), Num(0), Num(7)},
     email |-> {Str("invalid"), Str("testing@testing.tst")}]

\* the attributes change tracking and validation are exercised on
TrackSchema ==
    [email |-> {Str("invalid"), Str("testing@testing.tst")},
     age |-> {Num(15), Num(25)}]

\* every object with exactly the keys ks and values of the schema
ObjectsOver(schema, ks) ==
    {o \in [ks -> UNION {schema[k] : k \in ks}] : \A k \in ks : o[k] \in schema[k]}

\* every object over the schema
Objects(schema) == UNION {ObjectsOver(schema, ks) : ks \in SUBSET DOMAIN schema}

\* every object over the schema with a single key
SingleKeyObjects(schema) ==
    UNION {ObjectsOver(schema, {k}) : k \in DOMAIN schema}

-----------------------------------------------------------------------------
(* The subclass under test: class User extends Model<TestSchema> *)

\* User.endpoint()
Endpoint == "/users"

\* User.defaults() is the inherited one
Defaults == EmptyObject

\* String.prototype.includes('@') over the e-mail strings of the schema
IncludesAt(s) == s \in {"testing@testing.tst"}

\* User.validate(attr): a message when attr is rejected, undefined otherwise
Validate(attr) ==
    LET age == Get(attr, "age")
        email == Get(attr, "email")
    IN  IF Truthy(age) /\ age.num < 18 THEN Str("Must be an adult")
        ELSE IF ~Truthy(email) \/ email = Str("") THEN Str("Must provide an email")
        ELSE IF ~IncludesAt(email.str) THEN Str("Email must be valid")
        ELSE Undefined

-----------------------------------------------------------------------------
(* Model: the synchronous part *)

\* the constructor with the defaults spread over the data
ConstructorDefaultsLast(dflts, data) == Assign(data, dflts)

\* constructor(data): the attributes of the new instance
Constructor(dflts, data) == Assign(dflts, data)

\* hasChanged(attr), attr a key or undefined, on a model whose #changed is chg
HasChanged(chg, attr) ==
    IF attr # Undefined THEN attr.str \in DOMAIN chg ELSE DOMAIN chg # {}

\* new ValidationError(message)
ValidationError(message) == [type |-> "ValidationError", message |-> message]

\* #getId()
GetId(attrs, idAttr) ==
    LET id == Get(attrs, idAttr)
    IN  IF TypeOf(id) = "number" \/ (TypeOf(id) = "string" /\ id.str # "")
        THEN id
        ELSE Undefined

\* isNew()
IsNew(attrs, idAttr) == ~Truthy(GetId(attrs, idAttr))

\* the hook was not reached in this call
NotInvoked == [type |-> "not invoked"]

\* DoValidation without the `options?.silent` test
DoValidationIgnoringSilent(attrs, options) ==
    LET errMsg == Validate(attrs)
    IN  IF Truthy(errMsg) /\ errMsg.str # ""
        THEN [ok |-> FALSE,
              validationError |-> ValidationError(errMsg.str),
              hook |-> errMsg]
        ELSE [ok |-> TRUE, validationError |-> Undefined, hook |-> errMsg]

\* #doValidation(attrs, options): the result, the validationError it leaves
\* and what the validate hook returned
DoValidation(attrs, options) ==
    IF Truthy(Get(options, "silent"))
    THEN [ok |-> TRUE, validationError |-> Undefined, hook |-> NotInvoked]
    ELSE LET errMsg == Validate(attrs)
         IN  IF Truthy(errMsg) /\ errMsg.str # ""
             THEN [ok |-> FALSE,
                   validationError |-> ValidationError(errMsg.str),
                   hook |-> errMsg]
             ELSE [ok |-> TRUE, validationError |-> Undefined, hook |-> errMsg]

\* PreviousOf without the `key in this.#attributes` test
PreviousOfEveryKey(attrs, current) ==
    [k \in DOMAIN attrs |-> Get(current, k)]

\* the keys of attrs that are in the attributes, with the values they have there
PreviousOf(attrs, current) ==
    [k \in DOMAIN attrs \cap DOMAIN current |-> current[k]]

\* SetAttrs with the assignment made before the validation gate
SetAttrsAssignFirst(m, attrs, opts) ==
    LET validating == Truthy(Get(opts, "validate"))
        v == DoValidation(Assign(m.attributes, attrs), opts)
    IN  [ret |-> ~(validating /\ ~v.ok),
         attributes |-> Assign(m.attributes, attrs),
         changed |-> attrs,
         previous |-> PreviousOf(attrs, m.attributes),
         validationError |->
             IF validating THEN v.validationError ELSE m.validationError,
         hook |-> IF validating THEN v.hook ELSE NotInvoked]

\* SetAttrs with a validation that passes not clearing validationError
SetAttrsKeepsError(m, attrs, opts) ==
    LET validating == Truthy(Get(opts, "validate"))
        v == DoValidation(Assign(m.attributes, attrs), opts)
    IN  IF validating /\ ~v.ok
        THEN [ret |-> FALSE, attributes |-> m.attributes, changed |-> m.changed,
              previous |-> m.previous, validationError |-> v.validationError,
              hook |-> v.hook]
        ELSE [ret |-> TRUE,
              attributes |-> Assign(m.attributes, attrs),
              changed |-> attrs,
              previous |-> PreviousOf(attrs, m.attributes),
              validationError |-> m.validationError,
              hook |-> IF validating THEN v.hook ELSE NotInvoked]

\* SetAttrs running the validation whether or not opts.validate asks for it
SetAttrsAlwaysValidates(m, attrs, opts) ==
    LET v == DoValidation(Assign(m.attributes, attrs), opts)
    IN  IF ~v.ok
        THEN [ret |-> FALSE, attributes |-> m.attributes, changed |-> m.changed,
              previous |-> m.previous, validationError |-> v.validationError,
              hook |-> v.hook]
        ELSE [ret |-> TRUE,
              attributes |-> Assign(m.attributes, attrs),
              changed |-> attrs,
              previous |-> PreviousOf(attrs, m.attributes),
              validationError |-> v.validationError,
              hook |-> v.hook]

\* SetAttrs recording as changed only the keys whose value differs
SetAttrsTracksDifferences(m, attrs, opts) ==
    LET validating == Truthy(Get(opts, "validate"))
        v == DoValidation(Assign(m.attributes, attrs), opts)
        differing == {k \in DOMAIN attrs : Get(m.attributes, k) # attrs[k]}
    IN  IF validating /\ ~v.ok
        THEN [ret |-> FALSE, attributes |-> m.attributes, changed |-> m.changed,
              previous |-> m.previous, validationError |-> v.validationError,
              hook |-> v.hook]
        ELSE [ret |-> TRUE,
              attributes |-> Assign(m.attributes, attrs),
              changed |-> [k \in differing |-> attrs[k]],
              previous |-> PreviousOf(attrs, m.attributes),
              validationError |->
                  IF validating THEN v.validationError ELSE m.validationError,
              hook |-> IF validating THEN v.hook ELSE NotInvoked]

\* set(attrs, opts) on a model m = [attributes, changed, previous,
\* validationError]: the value returned and the fields afterwards
SetAttrs(m, attrs, opts) ==
    LET validating == Truthy(Get(opts, "validate"))
        v == DoValidation(Assign(m.attributes, attrs), opts)
    IN  IF validating /\ ~v.ok
        THEN [ret |-> FALSE, attributes |-> m.attributes, changed |-> m.changed,
              previous |-> m.previous, validationError |-> v.validationError,
              hook |-> v.hook]
        ELSE [ret |-> TRUE,
              attributes |-> Assign(m.attributes, attrs),
              changed |-> attrs,
              previous |-> PreviousOf(attrs, m.attributes),
              validationError |->
                  IF validating THEN v.validationError ELSE m.validationError,
              hook |-> IF validating THEN v.hook ELSE NotInvoked]

\* the two call forms of set: set(attrs, options) and set(key, value, options)
SetArguments(call) ==
    IF call.form = "attrs"
    THEN [attrs |-> call.attrs, opts |-> call.options]
    ELSE [attrs |-> [k \in {call.key} |-> call.value], opts |-> call.options]

\* CloneCall handing the original's #attributes object itself to the clone
CloneCallSharing(attrs, options, idAttr, dflts, config) ==
    [attributes |-> IF Truthy(Get(options, "keepId")) THEN attrs
                    ELSE Delete(attrs, idAttr),
     changed |-> EmptyObject,
     previous |-> EmptyObject,
     validationError |-> Undefined,
     idAttribute |-> config.idAttribute,
     shared |-> TRUE]

\* clone(options) on a model with the attributes attrs: the fields of the
\* instance it returns, and whether its #attributes is the very object the
\* original holds (toJSON() and the constructor each build a new object)
CloneCall(attrs, options, idAttr, dflts, config) ==
    LET json == [k \in DOMAIN attrs |-> attrs[k]]
        kept == IF Truthy(Get(options, "keepId")) THEN json
                ELSE Delete(json, idAttr)
    IN  [attributes |-> Assign(dflts, kept),
         changed |-> EmptyObject,
         previous |-> EmptyObject,
         validationError |-> Undefined,
         idAttribute |-> config.idAttribute,
         shared |-> FALSE]

-----------------------------------------------------------------------------
(* Model: requests *)

\* JSON.stringify(body)
JsonStringify(body) == [type |-> "json", of |-> body]

\* no request was handed to the transport
NoRequest == [method |-> "none"]

\* sync(method, body, options) up to `await fetch(url, fetchOpts)`: the
\* url and fetchOpts handed to the transport
Sync(method, body, options, attrs, idAttr, config) ==
    LET id == GetId(attrs, idAttr)
        given == Get(options, "endpoint")
        endpoint == IF Truthy(given) THEN given.str ELSE Endpoint
        fullUrl == config.origin \o endpoint
        url == IF Truthy(id) THEN fullUrl \o "/" \o TemplateString(id) ELSE fullUrl
        extra == Get(options, "headers")
    IN  [method |-> method,
         url |-> url,
         headers |-> IF Truthy(extra) THEN Assign(config.headers, extra)
                     ELSE config.headers,
         body |-> IF Truthy(body) THEN JsonStringify(body) ELSE Undefined]

\* toJSON()
ToJSON(attrs) == attrs

\* SaveMethod choosing PUT whenever #getId() returned a value
SaveMethodIfDefined(id) == IF id # Undefined THEN "PUT" ELSE "POST"

\* save(): the method for the identity #getId() returned
SaveMethod(id) == IF Truthy(id) THEN "PUT" ELSE "POST"

\* SaveCall issuing no second creation while a POST is in flight
SaveCallDeduplicating(options, attrs, verr, idAttr, config) ==
    LET gate == Get(options, "validate") # Bool(FALSE)
        v == DoValidation(attrs, options)
        method == SaveMethod(GetId(attrs, idAttr))
    IN  IF (gate /\ ~v.ok) \/ (method = "POST" /\ pending["POST"] > 0)
        THEN [proceeds |-> FALSE,
              validationError |-> IF gate THEN v.validationError ELSE verr,
              hook |-> IF gate THEN v.hook ELSE NotInvoked, request |-> NoRequest]
        ELSE [proceeds |-> TRUE,
              validationError |-> IF gate THEN v.validationError ELSE verr,
              hook |-> IF gate THEN v.hook ELSE NotInvoked,
              request |-> Sync(method, ToJSON(attrs), options, attrs, idAttr, config)]

\* save(options) up to its first suspension: whether the validation gate
\* let it through, the validationError it leaves, and the request issued
SaveCall(options, attrs, verr, idAttr, config) ==
    LET gate == Get(options, "validate") # Bool(FALSE)
        v == DoValidation(attrs, options)
        method == SaveMethod(GetId(attrs, idAttr))
    IN  IF gate /\ ~v.ok
        THEN [proceeds |-> FALSE, validationError |-> v.validationError,
              hook |-> v.hook, request |-> NoRequest]
        ELSE [proceeds |-> TRUE,
              validationError |-> IF gate THEN v.validationError ELSE verr,
              hook |-> IF gate THEN v.hook ELSE NotInvoked,
              request |-> Sync(method, ToJSON(attrs), options, attrs, idAttr, config)]

\* destroy() up to its first suspension: the request issued, if any
DestroyCall(attrs, idAttr, config) ==
    IF Truthy(GetId(attrs, idAttr))
    THEN Sync("DELETE", Undefined, EmptyObject, attrs, idAttr, config)
    ELSE NoRequest

\* fetch() up to its first suspension
FetchCall(attrs, idAttr, config) ==
    Sync("GET", Undefined, EmptyObject, attrs, idAttr, config)

\* HTTP 204 No Content
NoContent == 204

\* SyncReturn without the `status === 204` test
SyncReturnAlwaysParses(response) ==
    IF ~response.ok
    THEN [threw |-> TRUE,
          error |-> "Vellum Sync Error: " \o response.statusText,
          data |-> Undefined]
    ELSE [threw |-> FALSE, error |-> "", data |-> response.json]

\* SyncReturn without the `!response.ok` test
SyncReturnIgnoresOk(response) ==
    IF response.status = NoContent
    THEN [threw |-> FALSE, error |-> "", data |-> Null]
    ELSE [threw |-> FALSE, error |-> "", data |-> response.json]

\* sync() from the arrival of the response: it throws, or resolves to data
SyncReturn(response) ==
    IF ~response.ok
    THEN [threw |-> TRUE,
          error |-> "Vellum Sync Error: " \o response.statusText,
          data |-> Undefined]
    ELSE IF response.status = NoContent
    THEN [threw |-> FALSE, error |-> "", data |-> Null]
    ELSE [threw |-> FALSE, error |-> "", data |-> response.json]

\* MergeOptions with the response of a fetch merged under validation
MergeOptionsValidating(op) ==
    IF op = "save" THEN [silent |-> Bool(TRUE)] ELSE [validate |-> Bool(TRUE)]

\* the options with which the continuation of op merges the response
MergeOptions(op) ==
    IF op = "save" THEN [silent |-> Bool(TRUE)] ELSE EmptyObject

\* Continue merging the response of a save without touching changed and previous
ContinueUntracked(op, m, data) ==
    IF op \in {"save", "fetch"} /\ Truthy(data) /\ TypeOf(data) = "object"
    THEN IF op = "save"
         THEN [ret |-> TRUE, attributes |-> Assign(m.attributes, data),
               changed |-> m.changed, previous |-> m.previous,
               validationError |-> m.validationError, hook |-> NotInvoked]
         ELSE SetAttrs(m, data, MergeOptions(op))
    ELSE [ret |-> TRUE, attributes |-> m.attributes, changed |-> m.changed,
          previous |-> m.previous, validationError |-> m.validationError,
          hook |-> NotInvoked]

\* Continue with the attributes of a destroyed model emptied
ContinueTombstoning(op, m, data) ==
    IF op \in {"save", "fetch"} /\ Truthy(data) /\ TypeOf(data) = "object"
    THEN SetAttrs(m, data, MergeOptions(op))
    ELSE [ret |-> TRUE,
          attributes |-> IF op = "destroy" THEN EmptyObject ELSE m.attributes,
          changed |-> m.changed,
          previous |-> m.previous, validationError |-> m.validationError,
          hook |-> NotInvoked]

\* Continue with the attributes replaced by the response
ContinueReplacing(op, m, data) ==
    IF op \in {"save", "fetch"} /\ Truthy(data) /\ TypeOf(data) = "object"
    THEN [SetAttrs(m, data, MergeOptions(op)) EXCEPT !.attributes = data]
    ELSE [ret |-> TRUE, attributes |-> m.attributes, changed |-> m.changed,
          previous |-> m.previous, validationError |-> m.validationError,
          hook |-> NotInvoked]

\* Continue with the response filling only the keys the model does not hold
ContinueKeepingLocal(op, m, data) ==
    IF op \in {"save", "fetch"} /\ Truthy(data) /\ TypeOf(data) = "object"
    THEN [SetAttrs(m, data, MergeOptions(op)) EXCEPT
              !.attributes = Assign(data, m.attributes)]
    ELSE [ret |-> TRUE, attributes |-> m.attributes, changed |-> m.changed,
          previous |-> m.previous, validationError |-> m.validationError,
          hook |-> NotInvoked]

\* the continuation of save(), fetch() or destroy() after `await this.sync()`
\* resolved to data, on a model m
Continue(op, m, data) ==
    IF op \in {"save", "fetch"} /\ Truthy(data) /\ TypeOf(data) = "object"
    THEN SetAttrs(m, data, MergeOptions(op))
    ELSE [ret |-> TRUE, attributes |-> m.attributes, changed |-> m.changed,
          previous |-> m.previous, validationError |-> m.validationError,
          hook |-> NotInvoked]

-----------------------------------------------------------------------------
(* Configuration *)

\* the name of the identity field when none is configured
DefaultIdAttribute == "id"

\* the initial value of vellumConfig
DefaultConfig ==
    [origin |-> "",
     headers |-> ("Content-Type" :> "application/json"),
     idAttribute |-> DefaultIdAttribute]

\* the idAttribute setting after configureVellum(config)
ConfiguredIdAttribute(current, config) ==
    IF Truthy(Get(config, "idAttribute")) THEN config.idAttribute.str ELSE current

\* Configured replacing the headers by those of the update
ConfiguredReplacingHeaders(current, config) ==
    [origin |-> IF Truthy(Get(config, "origin")) THEN config.origin.str
                ELSE current.origin,
     headers |-> IF Truthy(Get(config, "headers")) THEN config.headers
                 ELSE current.headers,
     idAttribute |-> ConfiguredIdAttribute(current.idAttribute, config)]

\* Configured assigning origin whenever the update has the key
ConfiguredAssigningOrigin(current, config) ==
    [origin |-> IF TypeOf(Get(config, "origin")) = "string" THEN config.origin.str
                ELSE current.origin,
     headers |-> IF Truthy(Get(config, "headers"))
                 THEN Assign(current.headers, config.headers)
                 ELSE current.headers,
     idAttribute |-> ConfiguredIdAttribute(current.idAttribute, config)]

\* Configured updating origin and headers only
ConfiguredWithoutIdAttribute(current, config) ==
    [origin |-> IF Truthy(Get(config, "origin")) THEN config.origin.str
                ELSE current.origin,
     headers |-> IF Truthy(Get(config, "headers"))
                 THEN Assign(current.headers, config.headers)
                 ELSE current.headers,
     idAttribute |-> current.idAttribute]

\* configureVellum(config)
Configured(current, config) ==
    [origin |-> IF Truthy(Get(config, "origin")) THEN config.origin.str
                ELSE current.origin,
     headers |-> IF Truthy(Get(config, "headers"))
                 THEN Assign(current.headers, config.headers)
                 ELSE current.headers,
     idAttribute |-> ConfiguredIdAttribute(current.idAttribute, config)]

-----------------------------------------------------------------------------
(* Collection: class UserCollection extends Collection<UserModel, UserSchema> *)

\* UserCollection.model
BoundModel == "UserModel"

\* UserCollection.endpoint
CollectionEndpoint == "/users"

\* new cls(data): a Model instance, told from every other one by ref
New(cls, data, ref) ==
    [type |-> "model", class |-> cls, ref |-> ref,
     attributes |-> Assign(Defaults, data)]

\* v instanceof Model
InstanceOfModel(v) == ~IsPlainObject(v) /\ v.type = "model"

\* a JSON array
Array(elements) == [type |-> "array", elements |-> elements]

\* String.prototype.charCodeAt(0) over the names of the data
CharCodeAt0(s) ==
    CASE s = "Alice" -> 65 [] s = "Michael" -> 77 [] s = "Zara" -> 90
      [] OTHER -> 0

\* a < b on strings: the names of the data differ in their first code unit
StringLess(s, t) == s # t /\ CharCodeAt0(s) < CharCodeAt0(t)

\* a < b: numeric on two numbers, by code units on two strings, false when
\* one side is undefined
Less(a, b) ==
    IF a.type = "number" /\ b.type = "number" THEN a.num < b.num
    ELSE IF a.type = "string" /\ b.type = "string" THEN StringLess(a.str, b.str)
    ELSE FALSE

\* v || d
OrElse(v, d) == IF Truthy(v) THEN v ELSE d

\* what comparator() returns in the subclasses: no comparator member,
\* undefined, the field names 'name' and 'age', the key extractor
\* (model) => model.get('age') || 0, and the pairwise comparator that
\* orders by name descending
Comparators == {"none", "undefined", "name", "age", "sortBy", "sort"}

\* the value the items are compared by
SortKey(kind, m) ==
    CASE kind = "name" -> Get(m.attributes, "name")
      [] kind = "age" -> Get(m.attributes, "age")
      [] kind = "sortBy" -> OrElse(Get(m.attributes, "age"), Num(0))
      [] kind = "sort" -> OrElse(Get(m.attributes, "name"), Str(""))

\* the function (a, b) => number that sort() hands to Array.prototype.sort
Compare(kind, a, b) ==
    LET aVal == SortKey(kind, a)
        bVal == SortKey(kind, b)
    IN  IF kind = "sort"
        THEN IF Less(bVal, aVal) THEN -1 ELSE IF Less(aVal, bVal) THEN 1 ELSE 0
        ELSE IF Less(aVal, bVal) THEN -1 ELSE IF Less(bVal, aVal) THEN 1 ELSE 0

RECURSIVE InsertStable(_, _, _)
\* x inserted into the sorted xs, after every element that does not come
\* after it
InsertStable(kind, xs, x) ==
    IF xs = <<>> THEN <<x>>
    ELSE IF Compare(kind, Head(xs), x) > 0 THEN <<x>> \o xs
    ELSE <<Head(xs)>> \o InsertStable(kind, Tail(xs), x)

RECURSIVE ArraySort(_, _)
\* Array.prototype.sort with a consistent comparator: the stable ordering
ArraySort(kind, xs) ==
    IF xs = <<>> THEN <<>>
    ELSE InsertStable(kind, ArraySort(kind, SubSeq(xs, 1, Len(xs) - 1)), xs[Len(xs)])

\* the comparison function is a consistent comparator for the elements of
\* xs, as Array.prototype.sort requires for a defined order
Consistent(kind, xs) ==
    \A i, j, k \in 1..Len(xs) :
        LET ab == Compare(kind, xs[i], xs[j])
            bc == Compare(kind, xs[j], xs[k])
            ac == Compare(kind, xs[i], xs[k])
        IN  /\ (ab < 0) <=> (Compare(kind, xs[j], xs[i]) > 0)
            /\ (ab = 0 /\ bc = 0) => ac = 0
            /\ (ab < 0 /\ bc < 0) => ac < 0
            /\ (ab > 0 /\ bc > 0) => ac > 0

\* the orders xs can be put in
Orders(xs) ==
    LET n == Len(xs)
    IN  {[i \in 1..n |-> xs[p[i]]] :
            p \in {q \in [1..n -> 1..n] : \A i, j \in 1..n : q[i] = q[j] => i = j}}

\* SortItems applying a comparator of its own when the subclass has none
SortItemsByDefault(kind, xs) ==
    IF kind \in {"none", "undefined"} THEN {ArraySort("name", xs)}
    ELSE IF Consistent(kind, xs) THEN {ArraySort(kind, xs)}
    ELSE Orders(xs)

\* sort(): the orders it can leave the items in. Without a comparator it
\* returns at once; with a consistent one the order is the stable one; with
\* an inconsistent one the order is implementation-defined
SortItems(kind, xs) ==
    IF kind \in {"none", "undefined"} THEN {xs}
    ELSE IF Consistent(kind, xs) THEN {ArraySort(kind, xs)}
    ELSE Orders(xs)

\* add(data): the instance returned and the items afterwards, for each
\* order sort() can leave
AddCall(xs, data, kind, ref) ==
    LET instance == IF InstanceOfModel(data) THEN data
                    ELSE New(BoundModel, data, ref)
    IN  {[instance |-> instance, items |-> sorted] :
            sorted \in SortItems(kind, Append(xs, instance))}

\* ResetCall keeping the items there were
ResetCallKeeping(xs, data, kind, first) ==
    SortItems(kind,
              xs \o [i \in 1..Len(data) |-> New(BoundModel, data[i], first + i)])

\* reset(data): the items afterwards, for each order sort() can leave;
\* first is the number of models constructed before
ResetCall(xs, data, kind, first) ==
    SortItems(kind, [i \in 1..Len(data) |-> New(BoundModel, data[i], first + i)])

\* a == b for a number and a string
LooseEquals(a, b) ==
    \/ a = b
    \/ a.type = "number" /\ b.type = "string" /\ NatToString(a.num) = b.str
    \/ a.type = "string" /\ b.type = "number" /\ a.str = NatToString(b.num)

\* a === b
StrictEquals(a, b) == a = b

\* find(query): the first item that has the query's value under every key
\* of the query, undefined when there is none
FindCall(xs, query) ==
    LET hits == {i \in 1..Len(xs) :
                    \A k \in DOMAIN query :
                        StrictEquals(Get(xs[i].attributes, k), query[k])}
    IN  IF hits = {} THEN Undefined
        ELSE xs[CHOOSE i \in hits : \A j \in hits : i <= j]

\* String(value)
StringOf(v) ==
    CASE v.type = "boolean" -> IF v.bool THEN "true" ELSE "false"
      [] v.type = "number" -> NatToString(v.num)
      [] v.type = "string" -> v.str

\* URLSearchParams.toString() for the search objects of at most one key
SearchParams(search) ==
    IF DOMAIN search = {} THEN ""
    ELSE LET key == CHOOSE k \in DOMAIN search : TRUE
         IN  key \o "=" \o StringOf(search[key])

\* CollectionFetchCall with the configuration the module starts with
CollectionFetchCallUnconfigured(options, config) ==
    LET given == Get(options, "endpoint")
        endpoint == IF Truthy(given) THEN given.str ELSE CollectionEndpoint
        query == IF Truthy(Get(options, "search"))
                 THEN "?" \o SearchParams(options.search) ELSE ""
    IN  [method |-> "GET",
         url |-> DefaultConfig.origin \o endpoint \o query,
         headers |-> DefaultConfig.headers,
         body |-> Undefined]

\* Collection.fetch(options) up to `await fetch(fullUrl, { headers })`
CollectionFetchCall(options, config) ==
    LET given == Get(options, "endpoint")
        endpoint == IF Truthy(given) THEN given.str ELSE CollectionEndpoint
        query == IF Truthy(Get(options, "search"))
                 THEN "?" \o SearchParams(options.search) ELSE ""
    IN  [method |-> "GET",
         url |-> config.origin \o endpoint \o query,
         headers |-> config.headers,
         body |-> Undefined]

\* CollectionFetchReturn resetting the collection whatever the status
CollectionFetchReturnIgnoresOk(xs, response, kind, first) ==
    IF response.json.type # "array"
    THEN {[threw |-> TRUE, error |-> "TypeError", items |-> xs]}
    ELSE {[threw |-> FALSE, error |-> "", items |-> sorted] :
            sorted \in ResetCall(xs, response.json.elements, kind, first)}

\* CollectionFetchReturn appending the models of the response to the items
CollectionFetchReturnMerging(xs, response, kind, first) ==
    IF ~response.ok
    THEN {[threw |-> TRUE,
           error |-> "Vellum Collection Error: " \o response.statusText,
           items |-> xs]}
    ELSE IF response.json.type # "array"
    THEN {[threw |-> TRUE, error |-> "TypeError", items |-> xs]}
    ELSE {[threw |-> FALSE, error |-> "", items |-> sorted] :
            sorted \in ResetCallKeeping(xs, response.json.elements, kind, first)}

\* Collection.fetch from the arrival of the response, for each order sort()
\* can leave: it throws (on a status that is not ok; a TypeError when the
\* body is no array and has no map), or resets the collection with the body
CollectionFetchReturn(xs, response, kind, first) ==
    IF ~response.ok
    THEN {[threw |-> TRUE,
           error |-> "Vellum Collection Error: " \o response.statusText,
           items |-> xs]}
    ELSE IF response.json.type # "array"
    THEN {[threw |-> TRUE, error |-> "TypeError", items |-> xs]}
    ELSE {[threw |-> FALSE, error |-> "", items |-> sorted] :
            sorted \in ResetCall(xs, response.json.elements, kind, first)}

-----------------------------------------------------------------------------
(* Inputs *)

\* set(attrs, options) calls with the given objects and options
AttrsCalls(objects, options) ==
    {[form |-> "attrs", attrs |-> a, options |-> o] : a \in objects, o \in options}

\* set(key, value, options) calls over the schema with the given options
KeyCalls(schema, options) ==
    UNION {{[form |-> "key", key |-> k, value |-> v, options |-> o] :
                v \in schema[k], o \in options} : k \in DOMAIN schema}

SetOptions ==
    {EmptyObject,
     [validate |-> Bool(TRUE)],
     [validate |-> Bool(TRUE), silent |-> Bool(TRUE)]}

IsValidOptions == {EmptyObject, [silent |-> Bool(TRUE)]}

SaveOptions ==
    {EmptyObject,
     [validate |-> Bool(FALSE)],
     [silent |-> Bool(TRUE)],
     [endpoint |-> Str("/v2/users")],
     [endpoint |-> Str("")],
     [origin |-> Str("https://other.x")],
     [headers |-> ("X-Trace" :> "1")]}

ConfigureInputs ==
    {EmptyObject,
     [origin |-> Str("https://api.x")],
     [origin |-> Str("")]}

\* the JSON bodies the server answers with
JsonBodies ==
    {Null, [id |-> Str("123"), email |-> Str("testing@testing.tst")]}
    \cup SingleKeyObjects(SyncSchema)

\* what the transport can answer: the fields of Response the code reads
Responses ==
    {[ok |-> TRUE, status |-> 200, statusText |-> "OK", json |-> j] : j \in JsonBodies}
    \cup
    {[ok |-> TRUE, status |-> NoContent, statusText |-> "No Content",
      json |-> [id |-> Str("123")]],
     [ok |-> FALSE, status |-> 404, statusText |-> "Not Found",
      json |-> [id |-> Str("123")]],
     [ok |-> FALSE, status |-> 500, statusText |-> "Internal Server Error",
      json |-> Null]}

\* the attributes cloning is exercised on
CloneSchema ==
    [id |-> {Str("123")}, name |-> {Str("John")}]

\* defaults() of the subclasses cloned: the inherited one and an override
SubclassDefaults == {Defaults, [name |-> Str("Default User")]}

CloneSetOptions == {EmptyObject, [validate |-> Bool(TRUE)]}

CloneOptions == {EmptyObject, [keepId |-> Bool(TRUE)]}

\* the attributes the validation state is exercised on
LifecycleSchema ==
    [id |-> {Str("123")},
     email |-> {Str("invalid"), Str("testing@testing.tst")}]

LifecycleSaveOptions ==
    {EmptyObject, [validate |-> Bool(FALSE)], [silent |-> Bool(TRUE)]}

\* what the transport answers while the validation state is exercised
LifecycleResponses ==
    {[ok |-> TRUE, status |-> 200, statusText |-> "OK", json |-> j] :
        j \in SingleKeyObjects(LifecycleSchema)}
    \cup
    {[ok |-> FALSE, status |-> 404, statusText |-> "Not Found", json |-> Null]}

\* the attributes requests overlap on
OverlapSchema ==
    [id |-> {Str("123")},
     email |-> {Str("invalid"), Str("testing@testing.tst")}]

\* the data of the models whose requests overlap
OverlapData ==
    {EmptyObject, [email |-> Str("invalid")],
     [id |-> Str("123"), email |-> Str("invalid")]}

\* what the transport answers to overlapping requests
OverlapResponses ==
    {[ok |-> TRUE, status |-> 200, statusText |-> "OK", json |-> j] :
        j \in {[email |-> Str("invalid")],
               [email |-> Str("testing@testing.tst")],
               [id |-> Str("123")]}}

\* the response that fails a Model request
NotFound == [ok |-> FALSE, status |-> 404, statusText |-> "Not Found", json |-> Null]

\* the attributes written on a member: the field the collection sorts by
MemberSchema == [name |-> {Str("Alice")}]

\* the array reset is called with while a member is written: a user with
\* the name the member was constructed with
MemberArrays == {<<[id |-> Num(3), name |-> Str("Michael"), age |-> Num(25)]>>}

\* the successful responses to Collection.fetch while a member is written
MemberListResponses ==
    {[ok |-> TRUE, status |-> 200, statusText |-> "OK", json |-> Array(a)] :
        a \in MemberArrays}

\* what the transport answers to the requests of a member
MemberResponses ==
    {[ok |-> TRUE, status |-> 200, statusText |-> "OK",
      json |-> [name |-> Str("Zara")]],
     [ok |-> TRUE, status |-> NoContent, statusText |-> "No Content", json |-> Null]}

\* the raw data of the users: two share a name, one has no age
Users ==
    {[id |-> Num(1), name |-> Str("Zara"), age |-> Num(30)],
     [id |-> Num(2), name |-> Str("Alice")],
     [id |-> Num(3), name |-> Str("Alice"), age |-> Num(25)]}

\* the attributes of the UserModel constructed outside the collection: it
\* shares its age with a user and its id with another
HeldUser == [id |-> Num(2), name |-> Str("Michael"), age |-> Num(25)]

\* the arrays reset is called with
ResetArrays ==
    {<<>>,
     <<[id |-> Num(1), name |-> Str("Zara"), age |-> Num(30)],
       [id |-> Num(2), name |-> Str("Alice")]>>,
     <<[id |-> Num(2), name |-> Str("Alice")],
       [id |-> Num(3), name |-> Str("Alice"), age |-> Num(25)]>>,
     <<[id |-> Num(3), name |-> Str("Alice"), age |-> Num(25)],
       [id |-> Num(3), name |-> Str("Alice"), age |-> Num(25)]>>}

\* the queries find is called with
Queries ==
    {EmptyObject,
     [id |-> Num(2)],
     [id |-> Str("2")],
     [id |-> Num(99)],
     [name |-> Str("Alice")],
     [age |-> Num(25)],
     [id |-> Num(2), name |-> Str("Michael")],
     [id |-> Num(1), name |-> Str("Alice")],
     [age |-> Str("25")],
     [age |-> Undefined]}

\* the options Collection.fetch is called with
FetchOptions ==
    {EmptyObject,
     [search |-> [active |-> Bool(TRUE)]],
     [endpoint |-> Str("/v2/users")],
     [endpoint |-> Str("")]}

\* the responses to Collection.fetch
CollectionResponses ==
    {[ok |-> TRUE, status |-> 200, statusText |-> "OK", json |-> Array(a)] :
        a \in {<<>>,
               <<[id |-> Num(1), name |-> Str("Zara"), age |-> Num(30)]>>,
               <<[id |-> Num(1), name |-> Str("Zara"), age |-> Num(30)],
                 [id |-> Num(2), name |-> Str("Alice")]>>}}
    \cup
    {[ok |-> TRUE, status |-> 200, statusText |-> "OK", json |-> Null],
     [ok |-> FALSE, status |-> 401, statusText |-> "Unauthorized",
      json |-> Array(<<[id |-> Num(2), name |-> Str("Alice")]>>)],
     [ok |-> FALSE, status |-> 500, statusText |-> "Internal Server Error",
      json |-> Null]}

\* the data added and reset while requests are in flight
SyncUsers == {[id |-> Num(3), name |-> Str("Michael"), age |-> Num(25)]}

SyncResetArrays == {<<[id |-> Num(2), name |-> Str("Alice")]>>}

\* the comparators of the collections that fetch
SyncComparators == {"none", "name"}

\* the configuration made while a collection is in use
CollectionConfigs ==
    {[origin |-> Str("https://api.x"),
      headers |-> ("Authorization" :> "Bearer X")]}

\* the attributes of the models whose identity is looked up
IdentitySchema == [id |-> {Str("123")}, _id |-> {Str("abc")}]

\* the names configured for the identity attribute
IdentityConfigs == {[idAttribute |-> Str("_id")], [idAttribute |-> Str("id")]}

\* the options of the saves that follow a configuration
IdentitySaveOptions == {[validate |-> Bool(FALSE)]}

\* the attributes of the models constructed between configurations
ConfigSchema == [id |-> {Str("123")}]

\* the updates configureVellum is called with: each setting absent,
\* undefined, empty and given, alone and together
ConfigureUpdates ==
    {EmptyObject,
     [origin |-> Undefined],
     [origin |-> Str("")],
     [origin |-> Str("https://api.x")],
     [origin |-> Str("https://api.y")],
     [headers |-> Undefined],
     [headers |-> EmptyObject],
     [headers |-> ("Authorization" :> "Bearer X")],
     [headers |-> ("Authorization" :> "Bearer Y")],
     [headers |-> ("Content-Type" :> "application/xml")],
     [headers |-> ("Content-Type" :> "application/xml" @@ "X-Trace" :> "1")],
     [idAttribute |-> Undefined],
     [idAttribute |-> Str("")],
     [idAttribute |-> Str("_id")],
     [idAttribute |-> Str("data-id")],
     [origin |-> Str("https://api.x"),
      headers |-> ("Authorization" :> "Bearer X"),
      idAttribute |-> Str("custom-id")]}

-----------------------------------------------------------------------------
(* State *)

\* the fields of the Model instance that set() reads and writes
Self ==
    [attributes |-> attributes, changed |-> changed, previous |-> previous,
     validationError |-> validationError]

\* no response arrived in the step
NoResponse == [ok |-> FALSE, status |-> 0, statusText |-> "", json |-> Undefined]

\* the record of a step: the operation, its arguments, what it returned
\* ("true", "false", "void", "pending" while the call is suspended,
\* "rejected" when it threw), what the validate hook returned in it and the
\* request it issued; for the arrival of a response, also the method of the
\* request answered, the response, the error thrown and what sync resolved to
Step(op, args, ret, hook, request) ==
    [op |-> op, args |-> args, ret |-> ret, hook |-> hook, request |-> request,
     resumed |-> "", response |-> NoResponse, error |-> "", data |-> Undefined]

\* the arguments of a call, as a step records them
NoArguments == [attrs |-> EmptyObject, opts |-> EmptyObject]

\* the argument of unset(key)
KeyArgument(key) == [attrs |-> EmptyObject, opts |-> EmptyObject, key |-> key]

\* the clone as it is once the original's #attributes object holds attrs:
\* an object that two instances share shows its changes to both
SeenByCopy(attrs) ==
    IF userCopy # Undefined /\ userCopy.shared
    THEN [userCopy EXCEPT !.attributes = attrs]
    ELSE userCopy

\* SeenByItems with the collection sorted anew when a member is written
SeenByItemsSorted(attrs) ==
    ArraySort(comparator,
              [n \in DOMAIN items |->
                  IF items[n].ref = 0 /\ items[n].class = BoundModel
                  THEN [items[n] EXCEPT !.attributes = attrs]
                  ELSE items[n]])

\* the items as they are once the model holds attrs: the model constructed
\* outside the collection is in items by reference, at the places where add
\* put it, and shows there what it holds
SeenByItems(attrs) ==
    [n \in DOMAIN items |->
        IF items[n].ref = 0 /\ items[n].class = BoundModel
        THEN [items[n] EXCEPT !.attributes = attrs]
        ELSE items[n]]

\* the clone once the original's #attributes is a new object
Unshared ==
    IF userCopy # Undefined THEN [userCopy EXCEPT !.shared = FALSE] ELSE userCopy

\* the methods of the requests save(), fetch() and destroy() issue
Methods == {"POST", "PUT", "GET", "DELETE"}

\* the operation that issued a request of the method
OperationOf(method) ==
    CASE method \in {"POST", "PUT"} -> "save"
      [] method = "GET" -> "fetch"
      [] method = "DELETE" -> "destroy"

NonePending == [method \in Methods |-> 0]

\* the number of requests in flight
InFlight == pending["POST"] + pending["PUT"] + pending["GET"] + pending["DELETE"]

\* the call that issued the request is suspended
Suspended(request) == [pending EXCEPT ![request.method] = @ + 1]

\* one call that issued a request of the method has resumed
Resumed(method) == [pending EXCEPT ![method] = @ - 1]

\* new UserCollection() of a subclass that defines no comparator
EmptyCollection ==
    /\ items = <<>>
    /\ comparator = "none"
    /\ constructed = 0
    /\ fetching = 0

\* a run that is not recorded and lets MaxPending requests be in flight
Unrecorded == [recording |-> FALSE, overlap |-> MaxPending, steps |-> <<>>]

\* a run that is recorded from its start and lets requests overlap
Recorded == [recording |-> TRUE, overlap |-> MaxOverlap, steps |-> <<>>]

\* the step just taken joins the steps of a recorded run, with the
\* attributes it left
Logged ==
    /\ run.recording => Len(run.steps) < MaxSteps
    /\ run' = IF run.recording
              THEN [run EXCEPT !.steps =
                        Append(@, [step |-> last', attributes |-> attributes'])]
              ELSE run

\* the record of new User(data)
Constructed(data) ==
    Step("new", [attrs |-> data, opts |-> EmptyObject], "void", NotInvoked, NoRequest)

\* the default configuration and a model constructed with data of the schema
InitOver(schema) ==
    /\ vellumConfig = DefaultConfig
    /\ defaults = Defaults
    /\ idAttribute = DefaultConfig.idAttribute
    /\ \E data \in Objects(schema) :
            /\ attributes = Constructor(Defaults, data)
            /\ last = Constructed(data)
    /\ userCopy = Undefined
    /\ changed = EmptyObject
    /\ previous = EmptyObject
    /\ validationError = Undefined
    /\ pending = NonePending
    /\ run = Unrecorded
    /\ EmptyCollection

\* ThisIdAttribute reading the configuration at the call
IdAttributeAtCall == vellumConfig.idAttribute

\* this.idAttribute: the field the instance was given at construction
ThisIdAttribute == idAttribute

\* new User(data): the instance under observation is replaced by a new one
Construct(data) ==
    /\ idAttribute' = vellumConfig.idAttribute
    /\ attributes' = Constructor(defaults, data)
    /\ changed' = EmptyObject
    /\ previous' = EmptyObject
    /\ validationError' = Undefined
    /\ pending' = NonePending
    /\ userCopy' = Undefined
    /\ last' = Constructed(data)
    /\ UNCHANGED <<vellumConfig, defaults, collectionVars>>
    /\ Logged

\* model.set(...)
Set(call) ==
    LET args == SetArguments(call)
        r == SetAttrs(Self, args.attrs, args.opts)
    IN  /\ attributes' = r.attributes
        /\ changed' = r.changed
        /\ previous' = r.previous
        /\ validationError' = r.validationError
        /\ userCopy' = SeenByCopy(r.attributes)
        /\ last' = Step("set", args, IF r.ret THEN "true" ELSE "false", r.hook, NoRequest)
        /\ UNCHANGED <<vellumConfig, defaults, idAttribute, pending>>
        /\ items' = SeenByItems(attributes')
        /\ UNCHANGED <<comparator, constructed, fetching>>
        /\ Logged

\* model.unset(key)
Unset(key) ==
    /\ attributes' = Delete(attributes, key)
    /\ userCopy' = SeenByCopy(attributes')
    /\ last' = Step("unset", KeyArgument(key), "void", NotInvoked, NoRequest)
    /\ UNCHANGED <<vellumConfig, defaults, idAttribute, changed, previous,
                   validationError, pending>>
    /\ items' = SeenByItems(attributes')
    /\ UNCHANGED <<comparator, constructed, fetching>>
    /\ Logged

\* model.clear()
Clear ==
    /\ attributes' = EmptyObject
    /\ userCopy' = Unshared
    /\ last' = Step("clear", NoArguments, "void", NotInvoked, NoRequest)
    /\ UNCHANGED <<vellumConfig, defaults, idAttribute, changed, previous,
                   validationError, pending>>
    /\ items' = SeenByItems(attributes')
    /\ UNCHANGED <<comparator, constructed, fetching>>
    /\ Logged

\* model.isNew()
IsNewCall ==
    /\ last' = Step("isNew", NoArguments,
                    IF IsNew(attributes, ThisIdAttribute) THEN "true" ELSE "false",
                    NotInvoked, NoRequest)
    /\ UNCHANGED <<vellumConfig, defaults, collectionVars, idAttribute, attributes, changed,
                   previous, validationError, pending, userCopy>>
    /\ Logged

\* model.isValid(options)
IsValid(options) ==
    LET v == DoValidation(attributes, Assign(options, [validate |-> Bool(TRUE)]))
    IN  /\ validationError' = v.validationError
        /\ last' = Step("isValid", [attrs |-> EmptyObject, opts |-> options],
                        IF v.ok THEN "true" ELSE "false", v.hook, NoRequest)
        /\ UNCHANGED <<vellumConfig, defaults, collectionVars, idAttribute, attributes, changed,
                       previous, pending, userCopy>>
        /\ Logged

\* model.save(options), up to the point where it resolves to false or suspends
Save(options) ==
    LET c == SaveCall(options, attributes, validationError, ThisIdAttribute, vellumConfig)
    IN  /\ c.proceeds => InFlight < run.overlap
        /\ validationError' = c.validationError
        /\ pending' = IF c.proceeds THEN Suspended(c.request) ELSE pending
        /\ last' = Step("save", [attrs |-> EmptyObject, opts |-> options],
                        IF c.proceeds THEN "pending" ELSE "false", c.hook, c.request)
        /\ UNCHANGED <<vellumConfig, defaults, collectionVars, idAttribute, attributes, changed,
                       previous, userCopy>>
        /\ Logged

\* model.fetch(), up to the point where it suspends
Fetch ==
    LET request == FetchCall(attributes, ThisIdAttribute, vellumConfig)
    IN  /\ InFlight < run.overlap
        /\ pending' = Suspended(request)
        /\ last' = Step("fetch", NoArguments, "pending", NotInvoked, request)
        /\ UNCHANGED <<vellumConfig, defaults, collectionVars, idAttribute, attributes, changed,
                       previous, validationError, userCopy>>
        /\ Logged

\* model.destroy(), up to the point where it resolves or suspends
Destroy ==
    LET request == DestroyCall(attributes, ThisIdAttribute, vellumConfig)
    IN  /\ request # NoRequest => InFlight < run.overlap
        /\ pending' = IF request # NoRequest THEN Suspended(request) ELSE pending
        /\ last' = Step("destroy", NoArguments,
                        IF request # NoRequest THEN "pending" ELSE "void",
                        NotInvoked, request)
        /\ UNCHANGED <<vellumConfig, defaults, collectionVars, idAttribute, attributes, changed,
                       previous, validationError, userCopy>>
        /\ Logged

\* the response to a request of the method arrives and its call resumes
Respond(method, response) ==
    LET op == OperationOf(method)
        s == SyncReturn(response)
        r == Continue(op, Self, s.data)
    IN  /\ pending[method] > 0
        /\ pending' = Resumed(method)
        /\ attributes' = IF s.threw THEN attributes ELSE r.attributes
        /\ changed' = IF s.threw THEN changed ELSE r.changed
        /\ previous' = IF s.threw THEN previous ELSE r.previous
        /\ validationError' = IF s.threw THEN validationError ELSE r.validationError
        /\ last' = [op |-> "response",
                    args |-> NoArguments,
                    ret |-> IF s.threw THEN "rejected"
                            ELSE IF op = "save" THEN "true" ELSE "void",
                    hook |-> IF s.threw THEN NotInvoked ELSE r.hook,
                    request |-> NoRequest,
                    resumed |-> method,
                    response |-> response,
                    error |-> s.error,
                    data |-> s.data]
        /\ userCopy' = SeenByCopy(attributes')
        /\ UNCHANGED <<vellumConfig, defaults, idAttribute>>
        /\ items' = SeenByItems(attributes')
        /\ UNCHANGED <<comparator, constructed, fetching>>
        /\ Logged

\* model.clone(options)
Clone(options) ==
    LET c == CloneCall(attributes, options, ThisIdAttribute, defaults, vellumConfig)
    IN  /\ userCopy' = c
        /\ attributes' = IF c.shared THEN c.attributes ELSE attributes
        /\ last' = Step("clone", [attrs |-> EmptyObject, opts |-> options],
                        "void", NotInvoked, NoRequest)
        /\ UNCHANGED <<vellumConfig, defaults, collectionVars, idAttribute, changed, previous,
                       validationError, pending>>
        /\ Logged

\* userCopy.set(...), on the instance clone() returned
CopySet(call) ==
    LET args == SetArguments(call)
        r == SetAttrs(userCopy, args.attrs, args.opts)
    IN  /\ userCopy # Undefined
        /\ userCopy' = [userCopy EXCEPT !.attributes = r.attributes,
                                        !.changed = r.changed,
                                        !.previous = r.previous,
                                        !.validationError = r.validationError]
        /\ attributes' = IF userCopy.shared THEN r.attributes ELSE attributes
        /\ last' = Step("userCopy.set", args, IF r.ret THEN "true" ELSE "false",
                        r.hook, NoRequest)
        /\ UNCHANGED <<vellumConfig, defaults, collectionVars, idAttribute, changed, previous,
                       validationError, pending>>
        /\ Logged

\* userCopy.unset(key)
CopyUnset(key) ==
    /\ userCopy # Undefined
    /\ userCopy' = [userCopy EXCEPT !.attributes = Delete(@, key)]
    /\ attributes' = IF userCopy.shared THEN Delete(attributes, key) ELSE attributes
    /\ last' = Step("userCopy.unset", KeyArgument(key), "void", NotInvoked, NoRequest)
    /\ UNCHANGED <<vellumConfig, defaults, collectionVars, idAttribute, changed, previous,
                   validationError, pending>>
    /\ Logged

\* userCopy.clear()
CopyClear ==
    /\ userCopy # Undefined
    /\ userCopy' = [userCopy EXCEPT !.attributes = EmptyObject, !.shared = FALSE]
    /\ last' = Step("userCopy.clear", NoArguments, "void", NotInvoked, NoRequest)
    /\ UNCHANGED <<vellumConfig, defaults, collectionVars, idAttribute, attributes, changed,
                   previous, validationError, pending>>
    /\ Logged

\* configureVellum(config)
ConfigureVellum(config) ==
    /\ vellumConfig' = Configured(vellumConfig, config)
    /\ last' = Step("configureVellum", [attrs |-> EmptyObject, opts |-> config],
                    "void", NotInvoked, NoRequest)
    /\ UNCHANGED <<defaults, collectionVars, idAttribute, attributes, changed, previous,
                   validationError, pending, userCopy>>
    /\ Logged

\* the UserModel constructed outside the collection
UserInstance ==
    [type |-> "model", class |-> BoundModel, ref |-> 0, attributes |-> attributes]

\* an instance of another subclass of Model<UserSchema>, constructed outside
\* the collection: class AdminModel extends Model<UserSchema>
AdminInstance ==
    [type |-> "model", class |-> "AdminModel", ref |-> 0,
     attributes |-> Assign(Defaults, [id |-> Num(9), name |-> Str("Zara")])]

\* the argument of a Collection call, as a step records it
DataArgument(data) == [attrs |-> EmptyObject, opts |-> EmptyObject, data |-> data]

\* whether the step leaves room for the models it constructs
Constructs(n) == constructed + n <= MaxConstructed

\* new UserCollection(), beside a UserModel constructed on its own
InitCollection ==
    /\ vellumConfig = DefaultConfig
    /\ defaults = Defaults
    /\ idAttribute = DefaultConfig.idAttribute
    /\ attributes = Constructor(Defaults, HeldUser)
    /\ userCopy = Undefined
    /\ changed = EmptyObject
    /\ previous = EmptyObject
    /\ validationError = Undefined
    /\ pending = NonePending
    /\ run = Unrecorded
    /\ items = <<>>
    /\ comparator \in Comparators
    /\ constructed = 0
    /\ fetching = 0
    /\ last = Constructed(HeldUser)

\* collection.add(data)
CollectionAdd(data) ==
    LET made == IF InstanceOfModel(data) THEN 0 ELSE 1
    IN  /\ Len(items) < MaxItems
        /\ Constructs(made)
        /\ \E r \in AddCall(items, data, comparator, constructed + 1) :
            /\ items' = r.items
            /\ last' = [Step("Collection.add", DataArgument(data), "instance",
                             NotInvoked, NoRequest) EXCEPT !.data = r.instance]
        /\ constructed' = constructed + made
        /\ UNCHANGED <<vellumConfig, defaults, idAttribute, attributes, changed,
                       previous, validationError, pending, userCopy,
                       comparator, fetching>>
        /\ Logged

\* collection.reset(data)
CollectionReset(data) ==
    /\ Constructs(Len(data))
    /\ items' \in ResetCall(items, data, comparator, constructed)
    /\ constructed' = constructed + Len(data)
    /\ last' = Step("Collection.reset", DataArgument(data), "void",
                    NotInvoked, NoRequest)
    /\ UNCHANGED <<vellumConfig, defaults, idAttribute, attributes, changed,
                   previous, validationError, pending, userCopy,
                   comparator, fetching>>
    /\ Logged

\* collection.find(query)
CollectionFind(query) ==
    /\ last' = [Step("Collection.find", DataArgument(query), "value",
                     NotInvoked, NoRequest)
                    EXCEPT !.data = FindCall(items, query)]
    /\ UNCHANGED <<vellumConfig, defaults, idAttribute, attributes, changed,
                   previous, validationError, pending, userCopy, collectionVars>>
    /\ Logged

\* collection.fetch(options), up to the point where it suspends
CollectionFetch(options) ==
    /\ fetching < MaxPending
    /\ fetching' = fetching + 1
    /\ last' = Step("Collection.fetch", [attrs |-> EmptyObject, opts |-> options],
                    "pending", NotInvoked,
                    CollectionFetchCall(options, vellumConfig))
    /\ UNCHANGED <<vellumConfig, defaults, idAttribute, attributes, changed,
                   previous, validationError, pending, userCopy,
                   items, comparator, constructed>>
    /\ Logged

\* the response to a Collection.fetch arrives and the call resumes
CollectionRespond(response) ==
    /\ fetching > 0
    /\ fetching' = fetching - 1
    /\ \E r \in CollectionFetchReturn(items, response, comparator, constructed) :
        LET made == IF r.threw THEN 0 ELSE Len(response.json.elements)
        IN
        /\ Constructs(made)
        /\ items' = r.items
        /\ constructed' = constructed + made
        /\ last' = [op |-> "Collection.response",
                    args |-> NoArguments,
                    ret |-> IF r.threw THEN "rejected" ELSE "void",
                    hook |-> NotInvoked,
                    request |-> NoRequest,
                    resumed |-> "GET",
                    response |-> response,
                    error |-> r.error,
                    data |-> Undefined]
    /\ UNCHANGED <<vellumConfig, defaults, idAttribute, attributes, changed,
                   previous, validationError, pending, userCopy, comparator>>
    /\ Logged

(* The request engine: construction, single-attribute set, save, fetch,
   isNew, destroy, the arrival of responses, and configuration of the origin *)

Init == InitOver(SyncSchema)

Next ==
    \/ \E data \in Objects(SyncSchema) : Construct(data)
    \/ \E call \in KeyCalls(SyncSchema, {EmptyObject}) : Set(call)
    \/ IsNewCall
    \/ \E options \in SaveOptions : Save(options)
    \/ Fetch
    \/ Destroy
    \/ \E method \in Methods, response \in Responses : Respond(method, response)
    \/ \E config \in ConfigureInputs : ConfigureVellum(config)

Spec == Init /\ [][Next]_vars

(* Change tracking and validation: construction, set in both call forms,
   unset, clear and isValid *)

InitTracking == InitOver(TrackSchema)

NextTracking ==
    \/ \E data \in Objects(TrackSchema) : Construct(data)
    \/ \E call \in AttrsCalls(Objects(TrackSchema), SetOptions)
                    \cup KeyCalls(TrackSchema, {EmptyObject, [validate |-> Bool(TRUE)]}) :
            Set(call)
    \/ \E key \in DOMAIN TrackSchema : Unset(key)
    \/ Clear
    \/ \E options \in IsValidOptions : IsValid(options)

SpecTracking == InitTracking /\ [][NextTracking]_vars

(* Cloning: a subclass with or without defaults, set, unset and clear on the
   original and on the instance clone() returned *)

InitClone ==
    /\ vellumConfig = DefaultConfig
    /\ defaults \in SubclassDefaults
    /\ idAttribute = DefaultConfig.idAttribute
    /\ \E data \in Objects(CloneSchema) :
            /\ attributes = Constructor(defaults, data)
            /\ last = Constructed(data)
    /\ changed = EmptyObject
    /\ previous = EmptyObject
    /\ validationError = Undefined
    /\ pending = NonePending
    /\ run = Unrecorded
    /\ EmptyCollection
    /\ userCopy = Undefined

NextClone ==
    \/ \E data \in Objects(CloneSchema) : Construct(data)
    \/ \E call \in KeyCalls(CloneSchema, CloneSetOptions) : Set(call)
    \/ \E key \in DOMAIN CloneSchema : Unset(key)
    \/ Clear
    \/ \E options \in CloneOptions : Clone(options)
    \/ \E call \in KeyCalls(CloneSchema, CloneSetOptions) : CopySet(call)
    \/ \E key \in DOMAIN CloneSchema : CopyUnset(key)
    \/ CopyClear

SpecClone == InitClone /\ [][NextClone]_vars

(* The validation state: every operation of a model that may or may not
   validate, with the requests of save, fetch and destroy answered *)

InitLifecycle == InitOver(LifecycleSchema)

NextLifecycle ==
    \/ \E data \in Objects(LifecycleSchema) : Construct(data)
    \/ \E call \in KeyCalls(LifecycleSchema, SetOptions) : Set(call)
    \/ \E key \in DOMAIN LifecycleSchema : Unset(key)
    \/ Clear
    \/ IsNewCall
    \/ \E options \in IsValidOptions : IsValid(options)
    \/ \E options \in CloneOptions : Clone(options)
    \/ \E options \in LifecycleSaveOptions : Save(options)
    \/ Fetch
    \/ Destroy
    \/ \E method \in Methods, response \in LifecycleResponses :
            Respond(method, response)

SpecLifecycle == InitLifecycle /\ [][NextLifecycle]_vars

(* Configuration: every kind of update, and models constructed in between *)

InitConfig == InitOver(ConfigSchema)

NextConfig ==
    \/ \E config \in ConfigureUpdates : ConfigureVellum(config)
    \/ \E data \in Objects(ConfigSchema) : Construct(data)
    \/ IsNewCall

SpecConfig == InitConfig /\ [][NextConfig]_vars

(* Identity under reconfiguration: models constructed before and after the
   configuration names another identity attribute *)

InitIdentity == InitOver(IdentitySchema)

NextIdentity ==
    \/ \E config \in IdentityConfigs : ConfigureVellum(config)
    \/ \E data \in Objects(IdentitySchema) : Construct(data)
    \/ IsNewCall
    \/ \E options \in IdentitySaveOptions : Save(options)
    \/ Fetch
    \/ Destroy
    \/ \E method \in Methods : Respond(method, NotFound)

SpecIdentity == InitIdentity /\ [][NextIdentity]_vars

(* A collection in memory: add, reset and find under each comparator *)

NextCollection ==
    \/ \E data \in Users \cup {UserInstance} : CollectionAdd(data)
    \/ \E data \in ResetArrays : CollectionReset(data)
    \/ \E query \in Queries : CollectionFind(query)

SpecCollection == InitCollection /\ [][NextCollection]_vars

(* A collection and a model against the server: add and reset, fetch and its
   response, and configuration between the requests *)

InitCollectionSync == InitCollection /\ comparator \in SyncComparators

NextCollectionSync ==
    \/ \E data \in SyncUsers \cup {AdminInstance} : CollectionAdd(data)
    \/ \E data \in SyncResetArrays : CollectionReset(data)
    \/ \E options \in FetchOptions : CollectionFetch(options)
    \/ \E response \in CollectionResponses : CollectionRespond(response)
    \/ \E config \in CollectionConfigs : ConfigureVellum(config)
    \/ Fetch
    \/ Respond("GET", NotFound)

SpecCollectionSync == InitCollectionSync /\ [][NextCollectionSync]_vars

(* Overlapping requests: a recorded run in which save and fetch are called
   while earlier requests are in flight, with set in between and the
   responses arriving in any order *)

InitOverlap ==
    /\ vellumConfig = DefaultConfig
    /\ defaults = Defaults
    /\ idAttribute = DefaultConfig.idAttribute
    /\ \E data \in OverlapData :
            /\ attributes = Constructor(Defaults, data)
            /\ last = Constructed(data)
    /\ userCopy = Undefined
    /\ changed = EmptyObject
    /\ previous = EmptyObject
    /\ validationError = Undefined
    /\ pending = NonePending
    /\ run = Recorded
    /\ EmptyCollection

NextOverlap ==
    \/ \E call \in KeyCalls(OverlapSchema, {EmptyObject}) : Set(call)
    \/ \E options \in IdentitySaveOptions : Save(options)
    \/ Fetch
    \/ \E method \in Methods, response \in OverlapResponses :
            Respond(method, response)

SpecOverlap == InitOverlap /\ [][NextOverlap]_vars

(* A model that is a member of a collection: the collection is added to,
   reset and fetched while the member is written, saved, fetched and
   destroyed *)

\* a collection sorted by name, beside a UserModel constructed on its own
InitMembers == InitCollection /\ comparator = "name"

NextMembers ==
    \/ CollectionAdd(UserInstance)
    \/ \E data \in MemberArrays : CollectionReset(data)
    \/ CollectionFetch(EmptyObject)
    \/ \E response \in MemberListResponses : CollectionRespond(response)
    \/ \E call \in KeyCalls(MemberSchema, {EmptyObject}) : Set(call)
    \/ \E key \in DOMAIN MemberSchema : Unset(key)
    \/ Clear
    \/ \E options \in IdentitySaveOptions : Save(options)
    \/ Fetch
    \/ Destroy
    \/ \E method \in Methods, response \in MemberResponses :
            Respond(method, response)

SpecMembers == InitMembers /\ [][NextMembers]_vars

(* A member that is destroyed: a recorded run in which a model is added to
   a collection, destroyed and saved, and its requests are answered *)

InitDestroyed ==
    /\ vellumConfig = DefaultConfig
    /\ defaults = Defaults
    /\ idAttribute = DefaultConfig.idAttribute
    /\ attributes = Constructor(Defaults, HeldUser)
    /\ last = Constructed(HeldUser)
    /\ userCopy = Undefined
    /\ changed = EmptyObject
    /\ previous = EmptyObject
    /\ validationError = Undefined
    /\ pending = NonePending
    /\ run = Recorded
    /\ EmptyCollection

NextDestroyed ==
    \/ CollectionAdd(UserInstance)
    \/ \E call \in KeyCalls(MemberSchema, {EmptyObject}) : Set(call)
    \/ IsNewCall
    \/ \E options \in IdentitySaveOptions : Save(options)
    \/ Destroy
    \/ \E method \in Methods, response \in MemberResponses \cup {NotFound} :
            Respond(method, response)

SpecDestroyed == InitDestroyed /\ [][NextDestroyed]_vars

-----------------------------------------------------------------------------
(* Change tracking and the validation gate of set *)

\* the step was a set() call that returned true
SetSucceeded(step) == step.op = "set" /\ step.ret = "true"

\* the step was a set() call that asked for validation
SetValidating(step) == step.op = "set" /\ Truthy(Get(step.args.opts, "validate"))

\* the validate hook ran in the step and returned a failure message
HookFailed(step) == step.hook.type = "string" /\ step.hook.str # ""

\* C1: after every set call that succeeds, changed is exactly the object
\* passed to that call, and previous holds the values the attributes had
\* before the call for those of its keys that were in the attributes, and
\* no other key.
ChangeTrackingReset ==
    [][SetSucceeded(last') =>
          /\ changed' = last'.args.attrs
          /\ DOMAIN previous' = DOMAIN last'.args.attrs \cap DOMAIN attributes
          /\ \A k \in DOMAIN previous' : previous'[k] = attributes[k]]_vars

\* C1 witness: a set of a key that was not in the attributes, made after an
\* earlier set left another key there: changed holds the new key alone and
\* previous is empty.
ChangeTrackingResetWitness ==
    /\ SetSucceeded(last)
    /\ DOMAIN changed = {"email"}
    /\ previous = EmptyObject
    /\ "age" \in DOMAIN attributes

\* C2: a set call with validate: true in which the validate hook reports a
\* failure returns false, leaves attributes, changed and previous as they
\* were, and leaves a validationError whose message is the hook's string.
ValidationGate ==
    [][(SetValidating(last') /\ HookFailed(last')) =>
          /\ last'.ret = "false"
          /\ attributes' = attributes
          /\ changed' = changed
          /\ previous' = previous
          /\ validationError' = ValidationError(last'.hook.str)]_vars

\* C2 witness: a validated set was rejected on a model that had tracked
\* an earlier change.
ValidationGateWitness ==
    /\ SetValidating(last)
    /\ last.ret = "false"
    /\ validationError = ValidationError("Must be an adult")
    /\ changed # EmptyObject

\* C10 as stated: every set call that returns true leaves validationError
\* absent, whether or not validation was requested.
SetSuccessClearsError == SetSucceeded(last) => validationError = Undefined

\* C10 amended: a set call that requests validation and returns true leaves
\* validationError absent; a set call that does not request validation
\* returns true and leaves validationError as it was.
ValidatedSetClearsError ==
    [][last'.op = "set" =>
          IF SetValidating(last')
          THEN last'.ret = "true" => validationError' = Undefined
          ELSE last'.ret = "true" /\ validationError' = validationError]_vars

\* C10 witness: a set without validation returned true on a model whose
\* earlier validated set had failed; the error is still there.
ValidatedSetClearsErrorWitness ==
    /\ SetSucceeded(last)
    /\ ~SetValidating(last)
    /\ validationError = ValidationError("Email must be valid")

-----------------------------------------------------------------------------
(* Identity, requests and responses *)

\* the identity field holds a non-empty string or a number
HasIdentity(attrs, idAttr) ==
    LET id == Get(attrs, idAttr)
    IN  id.type = "number" \/ (id.type = "string" /\ id.str # "")

\* the endpoint a call with the options addresses
EndpointFor(options) ==
    IF "endpoint" \in DOMAIN options /\ options.endpoint.str # ""
    THEN options.endpoint.str
    ELSE Endpoint

\* C3 as stated: a save whose options do not have validate === false, on
\* attributes the validate hook rejects, issues no request and returns
\* false, whatever other options are passed.
SaveBlocksOnInvalid ==
    (/\ last.op = "save"
     /\ Get(last.args.opts, "validate") # Bool(FALSE)
     /\ Validate(attributes) # Undefined)
    => last.request = NoRequest /\ last.ret = "false"

\* C4 as stated: isNew() is true iff the identity field is absent, null or
\* the empty string, and so false for every number, 0 included.
IdentityDetermination ==
    last.op = "isNew" =>
        (last.ret = "true" <=>
            \/ idAttribute \notin DOMAIN attributes
            \/ attributes[idAttribute] \in {Null, Str("")})

\* C5: the request of a save is a POST when isNew() is true and a PUT when
\* it is false; destroy issues a DELETE when isNew() is false and no
\* request when it is true.
RequestAgreesWithIsNew ==
    /\ (last.op = "save" /\ last.request # NoRequest) =>
            last.request.method =
                IF IsNew(attributes, idAttribute) THEN "POST" ELSE "PUT"
    /\ last.op = "destroy" =>
            IF IsNew(attributes, idAttribute)
            THEN last.request = NoRequest
            ELSE last.request # NoRequest /\ last.request.method = "DELETE"

\* C5 witness: a save on a model with a numeric identity went out as a PUT.
RequestAgreesWithIsNewWitness ==
    /\ last.op = "save"
    /\ last.request.method = "PUT"
    /\ Get(attributes, "id") = Num(7)

\* C6 as stated: every request goes to origin + endpoint, followed by "/"
\* and the identity value exactly when the model has an identity.
UrlResolution ==
    last.request # NoRequest =>
        last.request.url =
            vellumConfig.origin \o EndpointFor(last.args.opts) \o
                (IF HasIdentity(attributes, idAttribute)
                 THEN "/" \o TemplateString(attributes[idAttribute])
                 ELSE "")

\* a save that went out as a POST was answered with a JSON object that
\* holds an identity in its id field, under the default idAttribute
PostAnsweredWithId(step) ==
    /\ step.op = "response"
    /\ step.resumed = "POST"
    /\ step.ret = "true"
    /\ IsPlainObject(step.data)
    /\ HasIdentity(step.data, "id")
    /\ idAttribute = DefaultIdAttribute

\* C7 as stated: once the POST of a save is answered with an id, get('id')
\* is that id and the next save is a PUT to endpoint + "/" + id.
SaveAssignsIdentity ==
    [][PostAnsweredWithId(last) =>
          /\ Get(attributes, "id") = last.data.id
          /\ (last'.op = "save" /\ last'.request # NoRequest) =>
                 /\ last'.request.method = "PUT"
                 /\ last'.request.url =
                        vellumConfig.origin \o EndpointFor(last'.args.opts)
                            \o "/" \o TemplateString(last.data.id)]_vars

\* C8: when the response has status 204, sync resolves to null whatever the
\* method: nothing is merged into the model and the call does not reject; a
\* save returns true.
NoContentMergesNothing ==
    [][(last'.op = "response" /\ last'.response.status = NoContent) =>
          /\ last'.data = Null
          /\ attributes' = attributes
          /\ changed' = changed
          /\ previous' = previous
          /\ last'.ret = IF OperationOf(last'.resumed) = "save" THEN "true" ELSE "void"]_vars

\* C8 witness: the POST of a save was answered with 204 and save returned true.
NoContentMergesNothingWitness ==
    /\ last.op = "response"
    /\ last.response.status = NoContent
    /\ last.resumed = "POST"
    /\ last.ret = "true"

\* C9: when the response is not a success, the call rejects with "Vellum
\* Sync Error: " and the status text, issues no other request, and leaves
\* attributes, changed and previous as they were.
SyncErrorPropagates ==
    [][(last'.op = "response" /\ ~last'.response.ok) =>
          /\ last'.ret = "rejected"
          /\ last'.error = "Vellum Sync Error: " \o last'.response.statusText
          /\ last'.request = NoRequest
          /\ InFlight' = InFlight - 1
          /\ attributes' = attributes
          /\ changed' = changed
          /\ previous' = previous]_vars

\* C9 witness: a fetch was rejected with the status text of a 404 on a model
\* that had tracked a change.
SyncErrorPropagatesWitness ==
    /\ last.op = "response"
    /\ last.resumed = "GET"
    /\ last.ret = "rejected"
    /\ last.error = "Vellum Sync Error: Not Found"
    /\ changed # EmptyObject

-----------------------------------------------------------------------------
(* The validation state *)

\* the step was a save() call that did not pass validate: false
SaveValidating(step) ==
    step.op = "save" /\ Get(step.args.opts, "validate") # Bool(FALSE)

\* C11 as stated: validationError goes from absent to present only in a set
\* or save call that requests validation and whose validate hook returns a
\* failure message.
ErrorOnlyFromSetOrSave ==
    [][(validationError = Undefined /\ validationError' # Undefined) =>
          /\ SetValidating(last') \/ SaveValidating(last')
          /\ HookFailed(last')]_vars

\* C11 amended: validationError goes from absent to present only in a call
\* that runs the validate hook and gets a failure message from it (a set
\* requesting validation, a save not passing validate: false, or isValid),
\* and it then carries that message.
ErrorOnlyFromValidation ==
    [][(validationError = Undefined /\ validationError' # Undefined) =>
          /\ SetValidating(last') \/ SaveValidating(last') \/ last'.op = "isValid"
          /\ HookFailed(last')
          /\ validationError' = ValidationError(last'.hook.str)]_vars

\* C11 witness: an isValid() call on a model without an e-mail left the
\* message of the hook in validationError.
ErrorOnlyFromValidationWitness ==
    /\ last.op = "isValid"
    /\ last.ret = "false"
    /\ validationError = ValidationError("Must provide an email")

\* the step was an isValid() call with silent: true
IsValidSilent(step) ==
    step.op = "isValid" /\ Truthy(Get(step.args.opts, "silent"))

\* C12 as stated: isValid({silent: true}) returns true iff the validate hook
\* accepts the current attributes, and leaves validationError as it was.
SilentIsValidRunsHook ==
    [][IsValidSilent(last') =>
          /\ last'.ret = "true" <=> ~Truthy(Validate(attributes))
          /\ validationError' = validationError]_vars

\* the step resumed a save() with a JSON object as the data of the response
SaveMerged(step) ==
    /\ step.op = "response"
    /\ OperationOf(step.resumed) = "save"
    /\ step.ret = "true"
    /\ IsPlainObject(step.data)

\* C13 as stated: the merge of the response of a save leaves changed and
\* previous as they were.
SaveMergeUntracked ==
    [][SaveMerged(last') => changed' = changed /\ previous' = previous]_vars

\* C13 amended: the response of a save is merged as set merges: changed
\* becomes the response object, previous the values its keys had in the
\* attributes; validationError is not touched.
SaveMergeTracked ==
    [][SaveMerged(last') =>
          /\ attributes' = Assign(attributes, last'.data)
          /\ changed' = last'.data
          /\ previous' = PreviousOf(last'.data, attributes)
          /\ validationError' = validationError]_vars

\* C13 witness: a save was answered with { id: "123" } on a model that had an
\* id: changed is the response and previous the id it replaced.
SaveMergeTrackedWitness ==
    /\ SaveMerged(last)
    /\ changed = [id |-> Str("123")]
    /\ previous = [id |-> Num(7)]

\* C14 as stated: a set with validate: true is accepted iff the validate hook
\* accepts the attributes overlaid with the incoming partial.
MergedCandidateValidated ==
    [][SetValidating(last') =>
          (last'.ret = "true" <=>
              ~Truthy(Validate(Assign(attributes, last'.args.attrs))))]_vars

\* C15: unset(key) removes exactly that key and clear() every attribute, so
\* that isNew() is true; changed, previous and validationError stay.
UnsetAndClearUntracked ==
    [][/\ last'.op = "unset" =>
             /\ DOMAIN attributes' = DOMAIN attributes \ {last'.args.key}
             /\ \A k \in DOMAIN attributes' : attributes'[k] = attributes[k]
             /\ changed' = changed
             /\ previous' = previous
             /\ validationError' = validationError
       /\ last'.op = "clear" =>
             /\ attributes' = EmptyObject
             /\ IsNew(attributes', idAttribute')
             /\ changed' = changed
             /\ previous' = previous
             /\ validationError' = validationError]_vars

\* C15 witness: clear() emptied a model whose last set was tracked and whose
\* last validation had failed.
UnsetAndClearUntrackedWitness ==
    /\ last.op = "clear"
    /\ attributes = EmptyObject
    /\ changed = [id |-> Str("123")]
    /\ validationError = ValidationError("Email must be valid")

-----------------------------------------------------------------------------
(* Cloning *)

\* C16 as stated: clone() returns an instance without identity whose other
\* attributes are the original's, and clone({keepId: true}) one with the
\* original's attributes and identity, whatever the defaults of the subclass
\* and whatever set, unset or clear came before.
CloneCopiesAttributes ==
    last.op = "clone" =>
        IF Truthy(Get(last.args.opts, "keepId"))
        THEN /\ userCopy.attributes = attributes
             /\ IsNew(userCopy.attributes, userCopy.idAttribute)
                    <=> IsNew(attributes, idAttribute)
        ELSE /\ userCopy.attributes = Delete(attributes, idAttribute)
             /\ IsNew(userCopy.attributes, userCopy.idAttribute)

\* the step was a set, unset or clear on the original
OnOriginal(step) == step.op \in {"set", "unset", "clear"}

\* the step was a set, unset or clear on the instance clone() returned
OnCopy(step) == step.op \in {"userCopy.set", "userCopy.unset", "userCopy.clear"}

\* C17: the instance clone() returns has empty changed and previous, and
\* from then on a set, unset or clear on one of the two instances leaves the
\* attributes, changed, previous and validationError of the other alone.
CloneIndependent ==
    [][/\ last'.op = "clone" =>
             /\ userCopy'.changed = EmptyObject
             /\ userCopy'.previous = EmptyObject
             /\ attributes' = attributes
       /\ (OnOriginal(last') /\ userCopy # Undefined) => userCopy' = userCopy
       /\ OnCopy(last') =>
             /\ attributes' = attributes
             /\ changed' = changed
             /\ previous' = previous
             /\ validationError' = validationError]_vars

\* C17 witness: the clone of a model with a tracked change and a validation
\* error was set on its own: it tracks its change, the original keeps its
\* attributes and its tracking.
CloneIndependentWitness ==
    /\ last.op = "userCopy.set"
    /\ last.ret = "true"
    /\ userCopy.changed = [name |-> Str("John")]
    /\ "name" \notin DOMAIN attributes
    /\ changed = [id |-> Str("123")]
    /\ validationError # Undefined

-----------------------------------------------------------------------------
(* Configuration *)

\* the step was a configureVellum call with a headers object
HeadersConfigured(step) ==
    step.op = "configureVellum" /\ Truthy(Get(step.args.opts, "headers"))

\* C18: configureVellum with a headers object merges it key by key: every
\* key of the update has the update's value afterwards, every other header
\* keeps its value, and no other key appears.
HeadersMerged ==
    [][HeadersConfigured(last') =>
          LET update == last'.args.opts.headers
          IN  /\ DOMAIN vellumConfig'.headers =
                     DOMAIN vellumConfig.headers \cup DOMAIN update
              /\ \A h \in DOMAIN update : vellumConfig'.headers[h] = update[h]
              /\ \A h \in DOMAIN vellumConfig.headers \ DOMAIN update :
                     vellumConfig'.headers[h] = vellumConfig.headers[h]]_vars

\* C18 witness: an update of Content-Type after Authorization had been
\* added overwrote the one and kept the other.
HeadersMergedWitness ==
    /\ HeadersConfigured(last)
    /\ last.args.opts.headers = ("Content-Type" :> "application/xml")
    /\ vellumConfig.headers =
           ("Content-Type" :> "application/xml" @@ "Authorization" :> "Bearer X")

\* the setting is absent, undefined or empty in the update
NotGiven(config, key) ==
    LET v == Get(config, key)
    IN  v = Undefined \/ v = Str("")

\* C19: a configureVellum call leaves every setting that is absent,
\* undefined or empty in the update as it was; origin never goes from
\* non-empty back to empty, the header keys never shrink, and
\* configureVellum({}) changes nothing.
AbsentSettingsKept ==
    [][last'.op = "configureVellum" =>
          LET config == last'.args.opts
          IN  /\ NotGiven(config, "origin") =>
                     vellumConfig'.origin = vellumConfig.origin
              /\ NotGiven(config, "headers") =>
                     vellumConfig'.headers = vellumConfig.headers
              /\ NotGiven(config, "idAttribute") =>
                     vellumConfig'.idAttribute = vellumConfig.idAttribute
              /\ vellumConfig.origin # "" => vellumConfig'.origin # ""
              /\ DOMAIN vellumConfig.headers \subseteq DOMAIN vellumConfig'.headers
              /\ config = EmptyObject => vellumConfig' = vellumConfig]_vars

\* C19 witness: configureVellum({ origin: '' }) left a configured origin and
\* an added header in place.
AbsentSettingsKeptWitness ==
    /\ last.op = "configureVellum"
    /\ last.args.opts = [origin |-> Str("")]
    /\ vellumConfig.origin = "https://api.x"
    /\ "Authorization" \in DOMAIN vellumConfig.headers

-----------------------------------------------------------------------------
(* Requests under reconfiguration *)

\* the paths, with their query, that the requests of a UserCollection and
\* of the UserModel beside it address
RequestPaths == {"/users", "/users/2", "/users?active=true", "/v2/users"}

\* C21: every request of Model.sync and of Collection.fetch carries the
\* headers the configuration holds when it is issued and goes to the origin
\* the configuration holds then, whenever the instance was constructed.
RequestReadsConfiguration ==
    last.request # NoRequest =>
        /\ last.request.headers = vellumConfig.headers
        /\ \E path \in RequestPaths :
               last.request.url = vellumConfig.origin \o path

\* C21 witness: a collection constructed under the initial configuration
\* fetched from the origin and with the header configured since.
RequestReadsConfigurationWitness ==
    /\ last.op = "Collection.fetch"
    /\ last.request.url = "https://api.x/users?active=true"
    /\ "Authorization" \in DOMAIN last.request.headers
    /\ DefaultConfig.origin # "https://api.x"
    /\ "Authorization" \notin DOMAIN DefaultConfig.headers

\* the step looked the identity up under the attribute of the name:
\* isNew(), the method of save, the request of destroy and the url
IdentityUnder(name) ==
    /\ last.op = "isNew" =>
           (last.ret = "true" <=> ~HasIdentity(attributes, name))
    /\ (last.op = "save" /\ last.request # NoRequest) =>
           last.request.method =
               IF HasIdentity(attributes, name) THEN "PUT" ELSE "POST"
    /\ last.op = "destroy" =>
           (last.request = NoRequest <=> ~HasIdentity(attributes, name))
    /\ last.request # NoRequest =>
           last.request.url =
               vellumConfig.origin \o EndpointFor(last.args.opts) \o
                   (IF HasIdentity(attributes, name)
                    THEN "/" \o TemplateString(attributes[name])
                    ELSE "")

-----------------------------------------------------------------------------
(* Order of the items *)

\* the collection has a comparator that returns a field name or a function
Sorting == comparator \notin {"none", "undefined"}

\* the step was a call of add or of reset
AddedOrReset(step) == step.op \in {"Collection.add", "Collection.reset"}

\* no item of xs comes after an item that follows it
Ordered(kind, xs) ==
    \A i, j \in 1..Len(xs) : i < j => Compare(kind, xs[i], xs[j]) <= 0

\* C23 as stated: under a field-name, key-extractor or pairwise comparator
\* the whole of items is in the comparator's order after every add and
\* every reset, whatever the order of the additions.
ItemsOrdered ==
    (Sorting /\ AddedOrReset(last)) => Ordered(comparator, items)

\* the attributes of the items, in the order of the items
AttributesOf(xs) == [i \in 1..Len(xs) |-> xs[i].attributes]

\* C24: without a comparator, or with one that returns undefined, items is
\* in insertion order: reset leaves the elements of its array in array
\* order and add puts its instance at the end, the others staying in place.
InsertionOrder ==
    [][~Sorting' =>
          /\ last'.op = "Collection.reset" =>
                 AttributesOf(items') = last'.args.data
          /\ last'.op = "Collection.add" =>
                 items' = Append(items, last'.data)]_vars

\* C24 witness: in a collection whose comparator returns undefined, a
\* Michael and an Alice were added after the reset to a Zara and an Alice,
\* and stand last in that order.
InsertionOrderWitness ==
    /\ comparator = "undefined"
    /\ last.op = "Collection.add"
    /\ Len(items) = 4
    /\ items[1].attributes.name = Str("Zara")
    /\ items[2].attributes.name = Str("Alice")
    /\ items[3].attributes.name = Str("Michael")
    /\ items[4].attributes.name = Str("Alice")

\* the collection sorts by a field name or by a key extractor
SortingByKey == comparator \in {"name", "age", "sortBy"}

\* the items of xs whose sort key is key, in the order they have in xs
WithKey(xs, key) ==
    LET HasKey(m) == SortKey(comparator, m) = key
    IN  SelectSeq(xs, HasKey)

\* xs without its element at position p
Without(xs, p) == SubSeq(xs, 1, p - 1) \o SubSeq(xs, p + 1, Len(xs))

\* the sort keys of the elements of xs
KeysOf(xs) == {SortKey(comparator, xs[i]) : i \in 1..Len(xs)}

-----------------------------------------------------------------------------
(* Lookup and rebuilding *)

\* get(key) of the model is the query's value, of the same type, for every
\* key of the query
Matches(m, query) ==
    \A key \in DOMAIN query :
        /\ Get(m.attributes, key).type = query[key].type
        /\ Get(m.attributes, key) = query[key]

\* C26: find(query) returns the first item, in the order of items, that has
\* the query's value, of the same type, under every key of the query, and
\* undefined when there is none; it leaves the collection as it was.
FindFirstMatch ==
    /\ [](last.op = "Collection.find" =>
            LET query == last.args.data
                hits == {p \in 1..Len(items) : Matches(items[p], query)}
            IN  IF hits = {} THEN last.data = Undefined
                ELSE \E p \in hits :
                        /\ last.data = items[p]
                        /\ \A q \in hits : p <= q)
    /\ [][last'.op = "Collection.find" => collectionVars' = collectionVars]_vars

\* C26 witness: find({ id: 2, name: 'Michael' }) passed over the item that
\* has the id 2 and another name and returned the one behind it.
FindFirstMatchWitness ==
    /\ last.op = "Collection.find"
    /\ last.args.data = [id |-> Num(2), name |-> Str("Michael")]
    /\ Len(items) >= 2
    /\ items[1].attributes = [id |-> Num(2), name |-> Str("Alice")]
    /\ last.data = items[2]

\* the models of xs
ModelsOf(xs) == {xs[i] : i \in 1..Len(xs)}

\* C27: reset(data) rebuilds items wholesale: afterwards items is as long
\* as data, holds for each element of data exactly one model constructed
\* by the call with that element's attributes, and holds no model that
\* was in items before.
ResetRebuilds ==
    [][last'.op = "Collection.reset" =>
          LET data == last'.args.data
          IN  /\ Len(items') = Len(data)
              /\ \A i \in 1..Len(data) :
                     \E p \in 1..Len(items') :
                        /\ items'[p] = New(BoundModel, data[i], constructed + i)
                        /\ \A q \in 1..Len(items') :
                               items'[q].ref = constructed + i => q = p
              /\ \A p \in 1..Len(items') :
                     /\ items'[p].ref > constructed
                     /\ items'[p] # UserInstance
              /\ ModelsOf(items') \cap ModelsOf(items) = {}]_vars

\* C27 witness: a reset with two elements, in a collection that had
\* constructed a model before, left the two models it constructed.
ResetRebuildsWitness ==
    /\ last.op = "Collection.reset"
    /\ Len(last.args.data) = 2
    /\ constructed = 3
    /\ Len(items) = 2
    /\ {items[1].ref, items[2].ref} = {2, 3}

\* C28 as stated: whatever add (of raw data or of a model instance
\* constructed elsewhere), reset and fetch have done, every element of items
\* is an instance of the model class the collection is bound to.
ItemsAreBoundModels ==
    \A p \in 1..Len(items) :
        InstanceOfModel(items[p]) /\ items[p].class = BoundModel

-----------------------------------------------------------------------------
(* Collection.fetch and its response *)

\* the step resumed a Collection.fetch with the response to its request
Answered(step) == step.op = "Collection.response"

\* C29: a response to Collection.fetch whose status is not a success makes
\* fetch reject with "Vellum Collection Error: " and the status text, which
\* is not the error of a Model request, and leaves items as it was when the
\* response arrived.
CollectionErrorPropagates ==
    [][(Answered(last') /\ ~last'.response.ok) =>
          /\ last'.ret = "rejected"
          /\ last'.error =
                 "Vellum Collection Error: " \o last'.response.statusText
          /\ last'.error # SyncReturn(last'.response).error
          /\ items' = items]_vars

\* C29 witness: a 401 arrived at a collection that held the Alice of a
\* reset and a Michael added to her, and they are still there.
CollectionErrorPropagatesWitness ==
    /\ Answered(last)
    /\ last.response.status = 401
    /\ last.error = "Vellum Collection Error: Unauthorized"
    /\ Len(items) = 2
    /\ items[1].attributes.name = Str("Alice")
    /\ items[2].attributes.name = Str("Michael")

\* the response is a success that carries a JSON array
Applied(step) ==
    Answered(step) /\ step.response.ok /\ step.response.json.type = "array"

\* C30: when a successful response to Collection.fetch is applied, items
\* becomes one newly constructed model per element of the response, as
\* sort() leaves them: in the order of the response without a comparator,
\* in the comparator's order when it compares these models consistently;
\* nothing is merged: no model that was in items when the response arrived,
\* those added since the request was issued included, is in items
\* afterwards.
ResponseReplacesItems ==
    [][Applied(last') =>
          LET data == last'.response.json.elements
          IN  /\ last'.ret = "void"
              /\ Len(items') = Len(data)
              /\ \A i \in 1..Len(data) :
                     \E p \in 1..Len(items') :
                        items'[p] = New(BoundModel, data[i], constructed + i)
              /\ ~Sorting' => AttributesOf(items') = data
              /\ (Sorting' /\ Consistent(comparator', items')) =>
                     Ordered(comparator', items')
              /\ ModelsOf(items') \cap ModelsOf(items) = {}]_vars

\* C30 witness: the response with a Zara and an Alice was applied in a
\* collection sorted by name that had constructed a model before: items
\* holds the Alice and the Zara of the response and nothing else.
ResponseReplacesItemsWitness ==
    /\ Applied(last)
    /\ comparator = "name"
    /\ constructed = 3
    /\ Len(items) = 2
    /\ items[1] = New(BoundModel, [id |-> Num(2), name |-> Str("Alice")], 3)
    /\ items[2].ref = 2

-----------------------------------------------------------------------------
(* The merge of a fetched response *)

\* the step resumed a fetch() with a JSON object as the data of the response
FetchMerged(step) ==
    /\ step.op = "response"
    /\ OperationOf(step.resumed) = "fetch"
    /\ step.ret = "void"
    /\ IsPlainObject(step.data)

\* C33: when a fetch resumes with a JSON object, every key of the response
\* holds the value of the response afterwards and every other attribute is
\* as it was before; the validate hook is not invoked and validationError
\* stays as it was, whether or not the merged attributes pass validation.
FetchMergesUnvalidated ==
    [][FetchMerged(last') =>
          /\ \A k \in DOMAIN last'.data :
                k \in DOMAIN attributes' /\ attributes'[k] = last'.data[k]
          /\ \A k \in DOMAIN attributes \ DOMAIN last'.data :
                k \in DOMAIN attributes' /\ attributes'[k] = attributes[k]
          /\ DOMAIN attributes' = DOMAIN attributes \cup DOMAIN last'.data
          /\ last'.hook = NotInvoked
          /\ validationError' = validationError]_vars

\* C33 witness: a fetch was answered with an e-mail the validate hook
\* rejects on a model that has an id: the e-mail is merged beside the id
\* and no validationError is left.
FetchMergesUnvalidatedWitness ==
    /\ FetchMerged(last)
    /\ last.data = [email |-> Str("invalid")]
    /\ attributes = [id |-> Str("123"), email |-> Str("invalid")]
    /\ Truthy(Validate(attributes))
    /\ validationError = Undefined

-----------------------------------------------------------------------------
(* The origin of a request *)

\* the step was a save() call that passed an origin and issued a request
SaveWithOrigin(step) ==
    /\ step.op = "save"
    /\ step.request # NoRequest
    /\ Truthy(Get(step.args.opts, "origin"))

\* C34 as stated: a save that passes options.origin sends its request to
\* that origin, followed by the endpoint and the identity as in every
\* request, and leaves the configuration as it was.
OriginOverridden ==
    [][SaveWithOrigin(last') =>
          /\ last'.request.url =
                last'.args.opts.origin.str \o EndpointFor(last'.args.opts) \o
                    (IF Truthy(GetId(attributes, idAttribute))
                     THEN "/" \o TemplateString(GetId(attributes, idAttribute))
                     ELSE "")
          /\ vellumConfig' = vellumConfig]_vars

-----------------------------------------------------------------------------
(* Construction *)

\* C35: a model that was just constructed holds the defaults of its subclass
\* overlaid with the data passed to the constructor, the data winning on the
\* keys they share; changed and previous are empty, hasChanged() is false
\* with and without a key, and there is no validationError.
ConstructedFromDefaults ==
    last.op = "new" =>
        LET data == last.args.attrs
        IN  /\ DOMAIN attributes = DOMAIN defaults \cup DOMAIN data
            /\ \A k \in DOMAIN data : attributes[k] = data[k]
            /\ \A k \in DOMAIN defaults \ DOMAIN data : attributes[k] = defaults[k]
            /\ changed = EmptyObject
            /\ previous = EmptyObject
            /\ ~HasChanged(changed, Undefined)
            /\ \A k \in DOMAIN attributes \cup DOMAIN CloneSchema :
                  ~HasChanged(changed, Str(k))
            /\ validationError = Undefined

\* C35 witness: a subclass whose defaults name the user was constructed with
\* another name and an id: the name is the one passed in.
ConstructedFromDefaultsWitness ==
    /\ last.op = "new"
    /\ defaults = [name |-> Str("Default User")]
    /\ last.args.attrs = [id |-> Str("123"), name |-> Str("John")]
    /\ attributes = [id |-> Str("123"), name |-> Str("John")]

-----------------------------------------------------------------------------
(* What hasChanged reports *)

\* C39: after a set that returned true, hasChanged(k) is true exactly for
\* the keys of the partial passed to it and hasChanged() is true exactly
\* when that partial has a key, whether or not a value differs from the one
\* it replaced.
ChangedMeansPassed ==
    [][SetSucceeded(last') =>
          /\ \A k \in DOMAIN TrackSchema :
                HasChanged(changed', Str(k)) <=> k \in DOMAIN last'.args.attrs
          /\ HasChanged(changed', Undefined) <=> last'.args.attrs # EmptyObject]_vars

\* C39 witness: a set passed the e-mail and the age the model already had:
\* both are reported as changed and previous holds the same values.
ChangedMeansPassedWitness ==
    /\ SetSucceeded(last)
    /\ last.args.attrs = [email |-> Str("testing@testing.tst"), age |-> Num(25)]
    /\ previous = last.args.attrs
    /\ HasChanged(changed, Str("email"))
    /\ HasChanged(changed, Str("age"))
    /\ HasChanged(changed, Undefined)

-----------------------------------------------------------------------------
(* The silent option *)

\* the step was a call that validates and was passed silent: true
SilentValidating(step) ==
    /\ SetValidating(step) \/ SaveValidating(step) \/ step.op = "isValid"
    /\ Truthy(Get(step.args.opts, "silent"))

-----------------------------------------------------------------------------
(* Overlapping requests *)

\* the n-th step of the recorded run
StepAt(n) == run.steps[n].step

\* the attributes the n-th step of the recorded run left
AttributesAt(n) == run.steps[n].attributes

\* between the steps i and j no response arrived and no attribute was written
CallsOnlyBetween(i, j) ==
    \A n \in (i + 1)..(j - 1) : StepAt(n).op \in {"save", "fetch"}

\* C37: when save is called on a model without identity and called again
\* before any response has arrived, the second call issues a request as the
\* first did: a POST to the collection endpoint.
NoDeduplication ==
    \A i, j \in DOMAIN run.steps :
        (/\ i < j
         /\ StepAt(i).op = "save"
         /\ StepAt(i).request.method = "POST"
         /\ StepAt(j).op = "save"
         /\ CallsOnlyBetween(i, j))
        => /\ StepAt(j).request.method = "POST"
           /\ StepAt(j).request.url = vellumConfig.origin \o Endpoint
           /\ StepAt(j).request.url = StepAt(i).request.url
           /\ StepAt(j).request.body = StepAt(i).request.body

\* C37 witness: two POST requests of the same model are in flight.
NoDeduplicationWitness ==
    /\ Len(run.steps) = 2
    /\ StepAt(1).op = "save"
    /\ StepAt(2).op = "save"
    /\ pending["POST"] = 2
    /\ "id" \notin DOMAIN attributes

\* the n-th step was a save() call that issued a request
SaveIssued(n) == StepAt(n).op = "save" /\ StepAt(n).request # NoRequest

\* the n-th step resumed a save() or a fetch() with a JSON object
MergedAt(n) == SaveMerged(StepAt(n)) \/ FetchMerged(StepAt(n))

\* C36: the request of a save has the method, the url and the body that
\* follow from the attributes at the call, whatever set writes afterwards;
\* when a save resumes with a JSON object, each key of the response holds
\* the value of the response and every other attribute the value it had
\* just before the response arrived.
RequestFixedAtCall ==
    /\ \A i \in DOMAIN run.steps :
          SaveIssued(i) =>
              LET id == GetId(AttributesAt(i), idAttribute)
              IN  /\ StepAt(i).request.method = IF Truthy(id) THEN "PUT" ELSE "POST"
                  /\ StepAt(i).request.url =
                        vellumConfig.origin \o Endpoint \o
                            (IF Truthy(id) THEN "/" \o TemplateString(id) ELSE "")
                  /\ StepAt(i).request.body = JsonStringify(AttributesAt(i))
    /\ \A j \in DOMAIN run.steps :
          (j > 1 /\ SaveMerged(StepAt(j))) =>
              /\ DOMAIN AttributesAt(j) =
                    DOMAIN AttributesAt(j - 1) \cup DOMAIN StepAt(j).data
              /\ \A k \in DOMAIN StepAt(j).data :
                    AttributesAt(j)[k] = StepAt(j).data[k]
              /\ \A k \in DOMAIN AttributesAt(j - 1) \ DOMAIN StepAt(j).data :
                    AttributesAt(j)[k] = AttributesAt(j - 1)[k]

\* C36 witness: a model without identity was saved with one e-mail, set to
\* another while the POST was in flight, and answered with an id: the body
\* of the request has the first e-mail, the attributes the second and the id.
RequestFixedAtCallWitness ==
    /\ Len(run.steps) = 3
    /\ SaveIssued(1)
    /\ StepAt(1).request.body = JsonStringify([email |-> Str("invalid")])
    /\ StepAt(2).op = "set"
    /\ SaveMerged(StepAt(3))
    /\ StepAt(3).data = [id |-> Str("123")]
    /\ attributes = [id |-> Str("123"), email |-> Str("testing@testing.tst")]

\* C31: when two responses with JSON objects arrive for requests that were
\* both in flight when the first of them arrived, every attribute that is
\* in both responses holds, once the second has been merged, the value of
\* the second, in whichever order the two requests were issued.
LastResponseWins ==
    \A i, j \in DOMAIN run.steps :
        (/\ i < j
         /\ MergedAt(i)
         /\ MergedAt(j)
         /\ \A n \in (i + 1)..(j - 1) : StepAt(n).request = NoRequest)
        => \A k \in DOMAIN StepAt(i).data \cap DOMAIN StepAt(j).data :
              AttributesAt(j)[k] = StepAt(j).data[k]

\* C31 witness: save was called, then fetch; the response to the fetch
\* arrived first and the response to the save last, each with an e-mail:
\* the model holds the e-mail of the response to the save.
LastResponseWinsWitness ==
    /\ Len(run.steps) = 4
    /\ StepAt(1).op = "save"
    /\ StepAt(2).op = "fetch"
    /\ FetchMerged(StepAt(3))
    /\ StepAt(3).data = [email |-> Str("testing@testing.tst")]
    /\ SaveMerged(StepAt(4))
    /\ StepAt(4).data = [email |-> Str("invalid")]
    /\ attributes = [id |-> Str("123"), email |-> Str("invalid")]

-----------------------------------------------------------------------------
(* The members of a collection *)

\* which instances are in xs, in the order of xs
InstancesOf(xs) ==
    [n \in 1..Len(xs) |-> [class |-> xs[n].class, ref |-> xs[n].ref]]

\* the step was a call on the model, or the arrival of one of its responses
OnMember(step) ==
    step.op \in {"set", "unset", "clear", "save", "fetch", "destroy", "response"}

\* C38: the instances in items and their order change only in add, reset
\* and the arrival of a response to Collection.fetch: set, unset, clear,
\* save, fetch and destroy on a member, and the responses to its requests,
\* leave every instance at its place, so that a set of the field the
\* collection sorts by leaves items out of order.
MembersStay ==
    [][/\ OnMember(last') => InstancesOf(items') = InstancesOf(items)
       /\ InstancesOf(items') # InstancesOf(items) =>
             last'.op \in {"Collection.add", "Collection.reset",
                           "Collection.response"}]_vars

\* C38 witness: the member was added after a user of the same name and then
\* set to a name that sorts before it: it is still the second item.
MembersStayWitness ==
    /\ last.op = "set"
    /\ Len(items) = 2
    /\ items[1].ref # 0
    /\ items[2].ref = 0
    /\ items[2].attributes = attributes
    /\ Get(attributes, "name") = Str("Alice")
    /\ ~Ordered(comparator, items)

-----------------------------------------------------------------------------
(* After destroy *)

\* the step resumed a destroy() with a response whose status is a success
DestroySucceeded(step) ==
    /\ step.op = "response"
    /\ step.resumed = "DELETE"
    /\ step.ret = "void"

\* the n-th step of the recorded run was a destroy() that issued a request
DestroyIssued(n) == StepAt(n).op = "destroy" /\ StepAt(n).request # NoRequest

\* between the steps i and j nothing was written to the attributes: every
\* step was a call, or the arrival of a response to a DELETE
UnwrittenBetween(i, j) ==
    \A n \in (i + 1)..(j - 1) :
        \/ StepAt(n).op \in {"save", "destroy", "isNew", "Collection.add"}
        \/ StepAt(n).op = "response" /\ StepAt(n).resumed = "DELETE"

\* C32: when a destroy resumes after a successful response, attributes,
\* changed and previous are as they were and so is items, the model
\* included; isNew() is false afterwards if it was before; and a save called
\* after the response, nothing having been written since the destroy,
\* issues a PUT to the url the DELETE was sent to.
NoTombstone ==
    /\ [][DestroySucceeded(last') =>
            /\ attributes' = attributes
            /\ changed' = changed
            /\ previous' = previous
            /\ items' = items
            /\ IsNew(attributes', idAttribute) = IsNew(attributes, idAttribute)]_vars
    /\ [](\A i, j, n \in DOMAIN run.steps :
            (/\ i < j /\ j < n
             /\ DestroyIssued(i)
             /\ DestroySucceeded(StepAt(j))
             /\ StepAt(n).op = "save"
             /\ UnwrittenBetween(i, n))
            => /\ ~IsNew(AttributesAt(n), idAttribute)
               /\ StepAt(n).request.method = "PUT"
               /\ StepAt(n).request.url = StepAt(i).request.url)

\* C32 witness: the model was added to a collection and destroyed, the
\* server answered 204, isNew() returned false and a save went out as a PUT
\* to /users/2; the model is still in items with its attributes.
NoTombstoneWitness ==
    /\ Len(run.steps) = 5
    /\ StepAt(1).op = "Collection.add"
    /\ DestroyIssued(2)
    /\ DestroySucceeded(StepAt(3))
    /\ StepAt(3).response.status = NoContent
    /\ StepAt(4).op = "isNew"
    /\ StepAt(4).ret = "false"
    /\ StepAt(5).op = "save"
    /\ StepAt(5).request.method = "PUT"
    /\ StepAt(5).request.url = StepAt(2).request.url
    /\ Len(items) = 1
    /\ items[1].ref = 0
    /\ items[1].attributes = HeldUser
    /\ attributes = HeldUser

====
